---- MODULE Spec2Model ----
(***************************************************************************)
(* Resume parsing pipeline of reverse-job-search-engine                    *)
(* (src/app/models/ai): text normalisation, section segmentation, skill    *)
(* deduplication, experience and education extraction, quality scoring     *)
(* and the orchestrating ResumeParser.                                     *)
(*                                                                         *)
(* A text is a sequence of tokens.  A token stands for one character       *)
(* (" ", "\n", "~", "-") or for one word of the resume ("Experience",      *)
(* "Developer", "2019", ...), so that the regular expressions of the       *)
(* source become predicates on tokens.                                     *)
(***************************************************************************)
EXTENDS Integers, Sequences, FiniteSets, TLC

VARIABLES
    pc,                 \* position of the invocation under study
    text,               \* the text argument of the entry point
    cleaned_text,       \* TextExtractor._clean_text(text)
    recleaned_text,     \* TextExtractor._clean_text(cleaned_text)
    sections,           \* result of TextExtractor.identify_sections
    raw_skills,         \* argument of SkillExtractor._deduplicate_skills
    skills,             \* result of _deduplicate_skills / extract_skills
    experience,         \* result of ExperienceParser.extract_experience
    education,          \* result of EducationParser.extract_education
    parsed_data,        \* argument of QualityAssessor.assess_resume_quality
    quality_assessment, \* result of assess_resume_quality
    raised,             \* the exception that left the entry point, or None
    now,                \* datetime.now() during the invocation, as <<y, m, d>>
    returned,           \* what a helper method under study returned
    args,               \* the arguments of a helper method under study
    calls,              \* the extraction strategies extract_text called, in order
    self,               \* the attributes of the shared ResumeParser instance
    db,                 \* the row of the resumes table and the task's view of it
    response,           \* what a request handler returned to its client
    upload_dir          \* the files of the upload directory, by name

vars == <<pc, text, cleaned_text, recleaned_text, sections, raw_skills, skills,
          experience, education, parsed_data, quality_assessment, raised, now,
          returned, args, calls, self, db, response, upload_dir>>

None == "None"

\* None where a datetime is expected; a datetime is <<year, month, day>>
NoneDate == <<>>

\* None where an extracted string is expected; no extracted string is empty
NoneText == <<>>

(***************************************************************************)
(* The tables the components build in __init__ and keep as attributes of   *)
(* the one ResumeParser instance.                                          *)
(***************************************************************************)
\* the keys of self.skill_categories, and of the result of extract_skills
SkillCategories ==
    {"programming_languages", "frameworks", "databases", "cloud_platforms",
     "tools", "soft_skills", "languages", "certifications"}

\* the built-in vocabulary of _load_default_skills, per category
default_skills(category) ==
    CASE category = "programming_languages" -> {"Python"}
      [] category = "frameworks"            -> {"React"}
      [] OTHER                              -> {}

\* the words the patterns of _extract_skills_patterns find in each category
\* (re.IGNORECASE)
PatternWords(category) ==
    CASE category = "programming_languages" -> {"Python", "python"}
      [] category = "frameworks"            -> {"React", "react"}
      [] OTHER                              -> {}

\* the words that contain a title of self.job_titles
job_titles == {"Developer", "Manager", "Programmer"}

\* self.date_patterns: the five patterns by their position in the list
date_patterns == <<1, 2, 3, 4, 5>>

\* self.degree_patterns in the order of the nested loops
degree_patterns == <<"Bachelor", "Master">>

\* a plausible slip: two weights are exchanged
criteria_weights_Exchanged ==
    [completeness |-> 20, structure |-> 25, content_quality |-> 25,
     ats_compatibility |-> 15, professionalism |-> 15]

\* self.criteria_weights, in hundredths
criteria_weights ==
    [completeness |-> 25, structure |-> 20, content_quality |-> 25,
     ats_compatibility |-> 15, professionalism |-> 15]

\* the attributes after ResumeParser() has constructed its components, with
\* no spaCy and no BERT model loaded (self.nlp and self.bert_ner are None,
\* here the empty sequence; a loaded model is a sequence of one record)
ResumeParser__init__ ==
    [skill_categories |-> [category \in SkillCategories |->
                               default_skills(category)],
     nlp |-> <<>>,
     bert_ner |-> <<>>,
     job_titles |-> job_titles,
     date_patterns |-> date_patterns,
     degree_patterns |-> degree_patterns,
     criteria_weights |-> criteria_weights]

(***************************************************************************)
(* Bounds of the model.                                                    *)
(***************************************************************************)
MaxTextLen == 5

(***************************************************************************)
(* Generic helpers on sequences.                                           *)
(***************************************************************************)
SeqsUpTo(S, n) == UNION {[1..k -> S] : k \in 0..n}

RECURSIVE Concat(_)
Concat(ss) == IF ss = <<>> THEN <<>> ELSE Head(ss) \o Concat(Tail(ss))

(***************************************************************************)
(* Character classes of the regular expressions.                           *)
(***************************************************************************)
\* \s of the re module: the tokens that are whitespace
Whitespace == {" ", "\n"}

\* the tokens removed by the allow-list substitution of _clean_text
Disallowed == {"~"}

IsSpace(c) == c \in Whitespace

(***************************************************************************)
(* TextExtractor._clean_text                                               *)
(***************************************************************************)
RECURSIVE DropLeadingSpace(_)
DropLeadingSpace(t) ==
    IF t # <<>> /\ IsSpace(Head(t)) THEN DropLeadingSpace(Tail(t)) ELSE t

RECURSIVE DropTrailingSpace(_)
DropTrailingSpace(t) ==
    IF t # <<>> /\ IsSpace(t[Len(t)])
    THEN DropTrailingSpace(SubSeq(t, 1, Len(t) - 1))
    ELSE t

\* str.strip()
Strip(t) == DropTrailingSpace(DropLeadingSpace(t))

\* re.sub(r'\s+', ' ', text)
RECURSIVE CollapseWhitespace(_)
CollapseWhitespace(t) ==
    IF t = <<>> THEN <<>>
    ELSE IF IsSpace(Head(t))
         THEN <<" ">> \o CollapseWhitespace(DropLeadingSpace(t))
         ELSE <<Head(t)>> \o CollapseWhitespace(Tail(t))

\* re.sub(r'[^\w\s\-\.\,...]', '', text)
StripDisallowed(t) == SelectSeq(t, LAMBDA c : c \notin Disallowed)

\* length of the maximal run of whitespace at the start of t
RECURSIVE SpaceRunLen(_)
SpaceRunLen(t) ==
    IF t # <<>> /\ IsSpace(Head(t)) THEN 1 + SpaceRunLen(Tail(t)) ELSE 0

\* re.sub(r'\n\s*\n', '\n\n', text): in a run of whitespace that starts with
\* a newline the greedy \s* reaches the last newline of the run
RECURSIVE NormalizeLineBreaks(_)
NormalizeLineBreaks(t) ==
    IF t = <<>> THEN <<>>
    ELSE IF Head(t) = "\n"
         THEN LET n == SpaceRunLen(t)
                  nls == {i \in 2..n : t[i] = "\n"}
              IN  IF nls = {}
                  THEN <<"\n">> \o NormalizeLineBreaks(Tail(t))
                  ELSE LET last == CHOOSE i \in nls : \A j \in nls : j <= i
                       IN  <<"\n", "\n">> \o
                           NormalizeLineBreaks(SubSeq(t, last + 1, Len(t)))
         ELSE <<Head(t)>> \o NormalizeLineBreaks(Tail(t))

_clean_text(t) ==
    IF t = <<>> THEN <<>>
    ELSE Strip(NormalizeLineBreaks(StripDisallowed(CollapseWhitespace(t))))

(***************************************************************************)
(* Specification SpecClean: _clean_text applied to a text and then to its  *)
(* own result.                                                             *)
(***************************************************************************)
CleanAlphabet == {"a", " ", "\n", "~"}

InitClean ==
    /\ pc = "clean"
    /\ text \in SeqsUpTo(CleanAlphabet, MaxTextLen)
    /\ cleaned_text = None
    /\ recleaned_text = None
    /\ sections = None
    /\ raw_skills = None
    /\ skills = None
    /\ experience = None
    /\ education = None
    /\ parsed_data = None
    /\ quality_assessment = None
    /\ raised = None
    /\ returned = None
    /\ upload_dir = None
    /\ response = None
    /\ db = None
    /\ self = ResumeParser__init__
    /\ calls = None
    /\ args = None
    /\ now = None

CleanText ==
    /\ pc = "clean"
    /\ cleaned_text' = _clean_text(text)
    /\ pc' = "reclean"
    /\ UNCHANGED <<text, recleaned_text, sections, raw_skills, skills,
                   experience, education, parsed_data, quality_assessment,
                   raised, now, returned,
                   args,
                   calls,
                   self,
                   db,
                   response,
                   upload_dir>>

CleanAgain ==
    /\ pc = "reclean"
    /\ recleaned_text' = _clean_text(cleaned_text)
    /\ pc' = "done"
    /\ UNCHANGED <<text, cleaned_text, sections, raw_skills, skills,
                   experience, education, parsed_data, quality_assessment,
                   raised, now, returned,
                   args,
                   calls,
                   self,
                   db,
                   response,
                   upload_dir>>

NextClean == CleanText \/ CleanAgain

SpecClean == InitClean /\ [][NextClean]_vars

\* C1: text normalisation is idempotent: cleaning a cleaned text gives the
\* same text, also when a disallowed character sits between two whitespace
\* characters.
C1_CleanIdempotent ==
    pc = "done" => recleaned_text = cleaned_text

(***************************************************************************)
(* TextExtractor.identify_sections                                         *)
(***************************************************************************)
\* str.split('\n'): the text cut at every newline; '' gives one empty line
RECURSIVE SplitLines(_)
SplitLines(t) ==
    IF \A i \in DOMAIN t : t[i] # "\n" THEN <<t>>
    ELSE LET k == CHOOSE i \in DOMAIN t :
                      t[i] = "\n" /\ \A j \in 1..(i - 1) : t[j] # "\n"
         IN  <<SubSeq(t, 1, k - 1)>> \o SplitLines(SubSeq(t, k + 1, Len(t)))

\* '\n'.join(lines)
RECURSIVE JoinLines(_)
JoinLines(ls) ==
    IF ls = <<>> THEN <<>>
    ELSE IF Len(ls) = 1 THEN ls[1]
    ELSE ls[1] \o <<"\n">> \o JoinLines(Tail(ls))

\* the keys of section_patterns, in the insertion order the loop visits them
SectionOrder ==
    <<"contact", "summary", "experience", "education", "skills", "projects",
      "certifications", "languages", "interests">>

\* the words each regular expression of section_patterns finds
section_patterns(name) ==
    CASE name = "contact"        -> {"Contact"}
      [] name = "summary"        -> {"Summary"}
      [] name = "experience"     -> {"Experience"}
      [] name = "education"      -> {"Education"}
      [] name = "skills"         -> {"Skills"}
      [] name = "projects"       -> {"Projects"}
      [] name = "certifications" -> {"Certifications"}
      [] name = "languages"      -> {"Languages"}
      [] name = "interests"      -> {"Interests"}

\* re.search(pattern, line): some word of the line is one the pattern finds
Search(words, line) == \E i \in DOMAIN line : line[i] \in words

\* a plausible slip: the loop over the patterns does not stop at the first
\* match, so the last matching label is the one that stays
MatchedSection_LastWins(line) ==
    LET hits == {i \in DOMAIN SectionOrder :
                     Search(section_patterns(SectionOrder[i]), line)}
    IN  IF hits = {} THEN None
        ELSE SectionOrder[CHOOSE i \in hits : \A j \in hits : i >= j]

\* the label of the first pattern, in SectionOrder, that matches the line
MatchedSection(line) ==
    LET hits == {i \in DOMAIN SectionOrder :
                     Search(section_patterns(SectionOrder[i]), line)}
    IN  IF hits = {} THEN None
        ELSE SectionOrder[CHOOSE i \in hits : \A j \in hits : i <= j]

\* a dict as the sequence of its items in insertion order; d[key] = value
\* keeps the position of a key that is already present
DictHas(d, key) == \E i \in DOMAIN d : d[i].name = key

\* a plausible slip: an assignment to a key that is present moves the key
\* to the end
DictSet_MoveToEnd(d, key, value) ==
    Append(SelectSeq(d, LAMBDA item : item.name # key),
           [name |-> key, content |-> value])

DictSet(d, key, value) ==
    IF DictHas(d, key)
    THEN [i \in DOMAIN d |->
            IF d[i].name = key THEN [name |-> key, content |-> value] ELSE d[i]]
    ELSE Append(d, [name |-> key, content |-> value])

DictGet(d, key) == d[CHOOSE i \in DOMAIN d : d[i].name = key].content

DictKeys(d) == [i \in DOMAIN d |-> d[i].name]

\* "if current_content: sections[current_section] = '\n'.join(...).strip()"
SaveSection(secs, current_section, current_content) ==
    IF current_content # <<>>
    THEN DictSet(secs, current_section, Strip(JoinLines(current_content)))
    ELSE secs

\* the loop over the lines, with the locals of identify_sections
RECURSIVE ScanSections(_, _, _, _)
ScanSections(lines, current_section, current_content, secs) ==
    IF lines = <<>>
    THEN SaveSection(secs, current_section, current_content)
    ELSE LET line == Strip(Head(lines))
         IN  IF line = <<>>
             THEN ScanSections(Tail(lines), current_section, current_content,
                               secs)
             ELSE IF MatchedSection(line) # None
             THEN ScanSections(Tail(lines), MatchedSection(line), <<>>,
                      SaveSection(secs, current_section, current_content))
             ELSE ScanSections(Tail(lines), current_section,
                      Append(current_content, line), secs)

identify_sections(t) == ScanSections(SplitLines(t), "header", <<>>, <<>>)

(***************************************************************************)
(* Specification SpecSections: identify_sections applied to a text of      *)
(* several lines.                                                          *)
(***************************************************************************)
MaxLines == 4

SectionLineShapes ==
    { <<>>, <<"a">>, <<" ", "b">>, <<"Experience">>, <<"Education">>,
      <<"Skills", " ", "Experience">> }

InitSections ==
    /\ pc = "identify"
    /\ text \in {JoinLines(ls) : ls \in SeqsUpTo(SectionLineShapes, MaxLines)}
    /\ cleaned_text = None
    /\ recleaned_text = None
    /\ sections = None
    /\ raw_skills = None
    /\ skills = None
    /\ experience = None
    /\ education = None
    /\ parsed_data = None
    /\ quality_assessment = None
    /\ raised = None
    /\ returned = None
    /\ upload_dir = None
    /\ response = None
    /\ db = None
    /\ self = ResumeParser__init__
    /\ calls = None
    /\ args = None
    /\ now = None

IdentifySections ==
    /\ pc = "identify"
    /\ sections' = identify_sections(text)
    /\ pc' = "done"
    /\ UNCHANGED <<text, cleaned_text, recleaned_text, raw_skills, skills,
                   experience, education, parsed_data, quality_assessment,
                   raised, now, returned,
                   args,
                   calls,
                   self,
                   db,
                   response,
                   upload_dir>>

NextSections == IdentifySections

SpecSections == InitSections /\ [][NextSections]_vars

Count(seq, x) == Cardinality({i \in DOMAIN seq : seq[i] = x})

RECURSIVE IsSubsequence(_, _)
IsSubsequence(s, t) ==
    IF s = <<>> THEN TRUE
    ELSE IF t = <<>> THEN FALSE
    ELSE IF Head(s) = Head(t) THEN IsSubsequence(Tail(s), Tail(t))
    ELSE IsSubsequence(s, Tail(t))

\* the non-blank lines of a text, stripped
NonBlankLines(t) ==
    SelectSeq([i \in DOMAIN SplitLines(t) |-> Strip(SplitLines(t)[i])],
              LAMBDA l : l # <<>>)

\* the non-blank lines that are not header lines
ContentLines(t) == SelectSeq(NonBlankLines(t), LAMBDA l : MatchedSection(l) = None)

\* the lines of all the section buffers of a map
BufferLines(secs) == Concat([i \in DOMAIN secs |-> SplitLines(secs[i].content)])

\* C2: identify_sections partitions the input: every non-blank line that is
\* not a header line is in exactly one section buffer exactly once, and each
\* buffer keeps the input order.
C2_SectionsPartition ==
    pc = "done" =>
        /\ \A l \in {Strip(x) : x \in SectionLineShapes} :
               Count(BufferLines(sections), l) = Count(ContentLines(text), l)
        /\ \A i \in DOMAIN sections :
               IsSubsequence(SplitLines(sections[i].content), ContentLines(text))

(***************************************************************************)
(* SkillExtractor._deduplicate_skills                                      *)
(***************************************************************************)
\* str.lower() on the skill names of the model
Lower(name) ==
    CASE name = "Python" -> "python"
      [] name = "python" -> "python"
      [] name = "PYTHON" -> "python"
      [] name = "React"  -> "react"
      [] name = "react"  -> "react"
      [] name = "React Native" -> "react native"
      [] OTHER           -> name

Max(a, b) == IF a >= b THEN a ELSE b

\* a plausible slip: the first confidence seen is kept
MergeConfidence_KeepFirst(existing_confidence, skill_confidence) ==
    existing_confidence

\* "existing['confidence'] = max(existing['confidence'], skill['confidence'])"
MergeConfidence(existing_confidence, skill_confidence) ==
    Max(existing_confidence, skill_confidence)

\* the branch "if skill_name in skill_map": the confidence is merged first,
\* and the comparison that guards the attribution reads the merged value
MergeSkill(existing, skill) ==
    LET merged == [existing EXCEPT !.confidence =
                       MergeConfidence(existing.confidence, skill.confidence)]
    IN  IF skill.confidence > merged.confidence
        THEN [merged EXCEPT !.extraction_method = skill.extraction_method,
                            !.context = skill.context]
        ELSE merged

\* the loop over the mentions, with the local skill_map (a dict keyed by the
\* lower-cased name)
RECURSIVE DedupLoop(_, _)
DedupLoop(mentions, skill_map) ==
    IF mentions = <<>> THEN skill_map
    ELSE LET skill == Head(mentions)
             skill_name == Lower(skill.skill_name)
         IN  IF DictHas(skill_map, skill_name)
             THEN DedupLoop(Tail(mentions),
                      DictSet(skill_map, skill_name,
                              MergeSkill(DictGet(skill_map, skill_name), skill)))
             ELSE DedupLoop(Tail(mentions),
                      DictSet(skill_map, skill_name, skill))

\* list(skill_map.values())
DictValues(d) == [i \in DOMAIN d |-> d[i].content]

_deduplicate_skills(mentions) == DictValues(DedupLoop(mentions, <<>>))

(***************************************************************************)
(* Specification SpecDedup: _deduplicate_skills applied to the mentions of *)
(* one category.  Confidences are in hundredths.                           *)
(***************************************************************************)
MaxMentions == 3

MentionPool ==
    { [skill_name |-> n, category |-> "programming_languages",
       confidence |-> c, extraction_method |-> m[1], context |-> m[2]] :
        n \in {"Python", "python", "React"},
        c \in {60, 80, 90},
        m \in {<<"spacy", "ctx1">>, <<"pattern", "ctx2">>} }

InitDedup ==
    /\ pc = "dedup"
    /\ raw_skills \in SeqsUpTo(MentionPool, MaxMentions)
    /\ text = None
    /\ cleaned_text = None
    /\ recleaned_text = None
    /\ sections = None
    /\ skills = None
    /\ experience = None
    /\ education = None
    /\ parsed_data = None
    /\ quality_assessment = None
    /\ raised = None
    /\ returned = None
    /\ upload_dir = None
    /\ response = None
    /\ db = None
    /\ self = ResumeParser__init__
    /\ calls = None
    /\ args = None
    /\ now = None

DeduplicateSkills ==
    /\ pc = "dedup"
    /\ skills' = _deduplicate_skills(raw_skills)
    /\ pc' = "done"
    /\ UNCHANGED <<text, cleaned_text, recleaned_text, sections, raw_skills,
                   experience, education, parsed_data, quality_assessment,
                   raised, now, returned,
                   args,
                   calls,
                   self,
                   db,
                   response,
                   upload_dir>>

NextDedup == DeduplicateSkills

SpecDedup == InitDedup /\ [][NextDedup]_vars

\* the mentions of a list that carry a given lower-cased name
Named(mentions, key) ==
    {i \in DOMAIN mentions : Lower(mentions[i].skill_name) = key}

\* C3: the result has exactly one record per case-insensitive skill name of
\* the input, no other record, and the record's confidence is the maximum
\* confidence over the input mentions with that name.
C3_DedupMaxConfidence ==
    pc = "done" =>
        /\ \A i \in DOMAIN raw_skills :
               Cardinality(Named(skills, Lower(raw_skills[i].skill_name))) = 1
        /\ \A j \in DOMAIN skills :
               LET same == Named(raw_skills, Lower(skills[j].skill_name))
               IN  /\ same # {}
                   /\ \E i \in same :
                          raw_skills[i].confidence = skills[j].confidence
                   /\ \A i \in same :
                          raw_skills[i].confidence <= skills[j].confidence

\* two mentions of one name were merged and the larger confidence came second
C3_Witness ==
    /\ pc = "done"
    /\ Len(raw_skills) = 2
    /\ Len(skills) = 1
    /\ raw_skills[1].skill_name = "Python"
    /\ raw_skills[2].skill_name = "python"
    /\ raw_skills[1].confidence = 60
    /\ raw_skills[2].confidence = 90
    /\ skills[1].confidence = 90

\* C4: the kept record's extraction_method and context are those of an input
\* mention of that name that holds the maximum confidence.
C4_AttributionFromMax ==
    pc = "done" =>
        \A j \in DOMAIN skills :
            \E i \in Named(raw_skills, Lower(skills[j].skill_name)) :
                /\ raw_skills[i].confidence = skills[j].confidence
                /\ raw_skills[i].extraction_method = skills[j].extraction_method
                /\ raw_skills[i].context = skills[j].context

(***************************************************************************)
(* ExperienceParser: the rescan of the text into experience blocks         *)
(***************************************************************************)
\* the words the regular expressions of experience_headers find
experience_headers == {"Experience"}

\* the words the regular expressions of major_sections find
experience_major_sections ==
    {"Education", "Skills", "Projects", "Certifications", "Languages",
     "Interests", "Achievements"}

\* "if current_section: sections.append('\n'.join(current_section))"
AppendBlock(blocks, current_section) ==
    IF current_section # <<>>
    THEN Append(blocks, JoinLines(current_section))
    ELSE blocks

\* the loop of _identify_experience_sections with its locals; the same loop
\* is in EducationParser._identify_education_sections with the header and
\* boundary words of that class
RECURSIVE ScanBlocks(_, _, _, _, _, _)
ScanBlocks(lines, current_section, in_section, blocks, headers, boundaries) ==
    IF lines = <<>> THEN AppendBlock(blocks, current_section)
    ELSE LET line == Strip(Head(lines))
         IN  IF Search(headers, line)
             THEN ScanBlocks(Tail(lines), <<line>>, TRUE,
                             AppendBlock(blocks, current_section),
                             headers, boundaries)
             ELSE IF in_section
             THEN IF Search(boundaries, line)
                  THEN ScanBlocks(Tail(lines), <<>>, FALSE,
                                  AppendBlock(blocks, current_section),
                                  headers, boundaries)
                  ELSE ScanBlocks(Tail(lines), Append(current_section, line),
                                  TRUE, blocks, headers, boundaries)
             ELSE ScanBlocks(Tail(lines), current_section, FALSE, blocks,
                             headers, boundaries)

_identify_experience_sections(t) ==
    ScanBlocks(SplitLines(t), <<>>, FALSE, <<>>,
               experience_headers, experience_major_sections)

(***************************************************************************)
(* ExperienceParser: company name and job title (self.nlp is None: the     *)
(* spaCy model is not installed and the regular expressions decide)        *)
(***************************************************************************)
\* the tokens that are a four-digit year, \d{4}
YearTokens == {"1999", "2019", "2021"}

YearOf(tok) ==
    CASE tok = "1999" -> 1999
      [] tok = "2019" -> 2019
      [] tok = "2021" -> 2021

\* the tokens that are a month name
MonthTokens == {"June"}

MonthOf(tok) == 6

\* the tokens that are a number with a decimal point, and their value in
\* tenths
DecimalTokens == {"0.0", "3.8", "4.0", "4.5", "5.0"}

DecimalTenths(tok) ==
    CASE tok = "0.0" -> 0
      [] tok = "3.8" -> 38
      [] tok = "4.0" -> 40
      [] tok = "4.5" -> 45
      [] tok = "5.0" -> 50

\* the tokens that are digits only
DigitTokens == YearTokens \cup {"4"}

\* the tokens that start and end with a word character
IsWord(c) == c \notin (Whitespace \cup Disallowed \cup {"-", ",", ":"})

\* [a-zA-Z]+ : the words made of letters only
IsAlpha(c) == IsWord(c) /\ c \notin (DigitTokens \cup DecimalTokens)

\* the words that start with a suffix of company_patterns
CompanySuffix ==
    {"Inc", "Corp", "LLC", "Ltd", "Company", "Technologies", "Systems",
     "Solutions", "Group", "Partners"}

\* the words of one letter: "[A-Z][a-zA-Z\s&]+" followed by "\s+" cannot
\* start at one of them when a single whitespace follows it
SingleLetters == {"a", "b"}

\* positions p..k-1 hold letters and whitespace only
AlphaSpaceRun(t, p, k) ==
    \A i \in p..(k - 1) : IsAlpha(t[i]) \/ IsSpace(t[i])

\* re.search of "([A-Z][a-zA-Z\s&]+)\s+(?:suffix|...)": the leftmost start p
\* of a run of letters and whitespace that reaches whitespace followed by a
\* suffix at k, the greedy group taking the last such k; group(1).strip()
SearchNameBeforeSuffix(t, suffixes) ==
    LET ends(p) == {k \in (p + 2)..Len(t) :
                        /\ k > p + 2 \/ t[p] \notin SingleLetters
                        /\ t[k] \in suffixes
                        /\ IsSpace(t[k - 1])
                        /\ AlphaSpaceRun(t, p, k)}
        starts == {p \in DOMAIN t : IsAlpha(t[p]) /\ ends(p) # {}}
    IN  IF starts = {} THEN NoneText
        ELSE LET p == CHOOSE x \in starts : \A y \in starts : x <= y
                 k == CHOOSE x \in ends(p) : \A y \in ends(p) : y <= x
             IN  Strip(SubSeq(t, p, k - 1))

_extract_company_name(t) == SearchNameBeforeSuffix(t, CompanySuffix)

\* the first stripped line that contains a job title, whole
RECURSIVE FirstTitleLine(_)
FirstTitleLine(lines) ==
    IF lines = <<>> THEN NoneText
    ELSE IF Search(self.job_titles, Strip(Head(lines))) THEN Strip(Head(lines))
    ELSE FirstTitleLine(Tail(lines))

_extract_job_title(t) == FirstTitleLine(SplitLines(t))

(***************************************************************************)
(* ExperienceParser._extract_dates and _parse_date_string.  A datetime is  *)
(* <<year, month, day>>.                                                   *)
(***************************************************************************)
\* the first position at or after i that is not whitespace
RECURSIVE SkipSpace(_, _)
SkipSpace(t, i) ==
    IF i <= Len(t) /\ IsSpace(t[i]) THEN SkipSpace(t, i + 1) ELSE i

At(t, i) == IF i \in DOMAIN t THEN t[i] ELSE None

\* (\w+)\s+(\d{4}) matched at position i: the position of the year, else 0
MatchWordYear(t, i) ==
    IF /\ IsWord(At(t, i)) /\ At(t, i) # None
       /\ IsSpace(At(t, i + 1))
       /\ At(t, SkipSpace(t, i + 1)) \in YearTokens
    THEN SkipSpace(t, i + 1) ELSE 0

\* \s*-\s* matched at position i: the position after it, else 0
MatchDash(t, i) ==
    IF At(t, SkipSpace(t, i)) = "-"
    THEN SkipSpace(t, SkipSpace(t, i) + 1) ELSE 0

\* self.date_patterns[p] matched at position i: the last position of the
\* match, else 0.  Patterns 1 and 2 need digits around "/" or "-" inside one
\* word, which no token of the model is.
MatchEnd(p, t, i) ==
    CASE p = 1 -> 0
      [] p = 2 -> 0
      [] p = 3 -> MatchWordYear(t, i)
      [] p = 4 -> IF At(t, i) \in YearTokens /\ MatchDash(t, i + 1) # 0
                     /\ At(t, MatchDash(t, i + 1)) \in
                            (YearTokens \cup {"Present", "Current"})
                  THEN MatchDash(t, i + 1) ELSE 0
      [] p = 5 -> IF MatchWordYear(t, i) # 0
                     /\ MatchDash(t, MatchWordYear(t, i) + 1) # 0
                  THEN MatchWordYear(t,
                           MatchDash(t, MatchWordYear(t, i) + 1))
                  ELSE 0

\* re.finditer: the matched strings, leftmost first and not overlapping
RECURSIVE FindAll(_, _, _)
FindAll(p, t, i) ==
    IF i > Len(t) THEN <<>>
    ELSE IF MatchEnd(p, t, i) # 0
         THEN <<SubSeq(t, i, MatchEnd(p, t, i))>> \o
              FindAll(p, t, MatchEnd(p, t, i) + 1)
         ELSE FindAll(p, t, i + 1)

\* dateutil's parse(date_str, fuzzy=True): the words that are no date are
\* skipped, one year and at most one month give a date whose missing month
\* and day come from today; anything else is a parse error (None)
FuzzyParse(date_str, today) ==
    LET years == {i \in DOMAIN date_str : date_str[i] \in YearTokens}
        months == {i \in DOMAIN date_str : date_str[i] \in MonthTokens}
    IN  IF Cardinality(years) = 1 /\ Cardinality(months) <= 1
        THEN <<YearOf(date_str[CHOOSE i \in years : TRUE]),
               IF months = {} THEN today[2]
               ELSE MonthOf(date_str[CHOOSE i \in months : TRUE]),
               today[3]>>
        ELSE NoneDate

\* _parse_date_string: a string that starts with four digits goes to
\* int(date_str), which raises unless the string is the year alone
_parse_date_string(date_str, today) ==
    IF date_str # <<>> /\ date_str[1] \in YearTokens
    THEN IF Len(date_str) = 1 THEN <<YearOf(date_str[1]), 1, 1>> ELSE NoneDate
    ELSE FuzzyParse(date_str, today)

\* a plausible slip: the open end of a current position is left unset
CurrentEndDate_Unset(end_date, today) == end_date

\* "if not end_date: end_date = datetime.now()"
CurrentEndDate(end_date, today) ==
    IF end_date = NoneDate THEN today ELSE end_date

\* the body of the loop over the matches of _extract_dates
DateStep(st, date_str, today) ==
    LET cur == \E i \in DOMAIN date_str : date_str[i] \in {"Present", "Current"}
        st1 == IF cur
               THEN [st EXCEPT !.is_current = TRUE,
                               !.end_date = CurrentEndDate(st.end_date, today)]
               ELSE st
        parsed_date == _parse_date_string(date_str, today)
    IN  IF parsed_date = NoneDate THEN st1
        ELSE IF st1.start_date = NoneDate
             THEN [st1 EXCEPT !.start_date = parsed_date]
        ELSE IF st1.end_date = NoneDate /\ ~st1.is_current
             THEN [st1 EXCEPT !.end_date = parsed_date]
        ELSE st1

RECURSIVE DateLoop(_, _, _)
DateLoop(strs, st, today) ==
    IF strs = <<>> THEN st
    ELSE DateLoop(Tail(strs), DateStep(st, Head(strs), today), today)

_extract_dates(t, today) ==
    DateLoop(Concat([k \in DOMAIN self.date_patterns |->
                         FindAll(self.date_patterns[k], t, 1)]),
             [start_date |-> NoneDate, end_date |-> NoneDate,
              is_current |-> FALSE],
             today)

\* datetime < datetime
DateLess(a, b) ==
    \/ a[1] < b[1]
    \/ a[1] = b[1] /\ a[2] < b[2]
    \/ a[1] = b[1] /\ a[2] = b[2] /\ a[3] < b[3]

(***************************************************************************)
(* ExperienceParser._calculate_duration; relativedelta(dt1, dt2) of        *)
(* dateutil as the library computes it                                     *)
(***************************************************************************)
IsLeapYear(y) == (y % 4 = 0 /\ y % 100 # 0) \/ y % 400 = 0

DaysInMonth(y, m) ==
    IF m = 2 THEN (IF IsLeapYear(y) THEN 29 ELSE 28)
    ELSE IF m \in {4, 6, 9, 11} THEN 30
    ELSE 31

\* dt + relativedelta(months=n): the day is cut to the length of the month
AddMonths(dt, n) ==
    LET total == dt[1] * 12 + (dt[2] - 1) + n
        y == total \div 12
        m == (total % 12) + 1
    IN  <<y, m, IF dt[3] > DaysInMonth(y, m) THEN DaysInMonth(y, m) ELSE dt[3]>>

\* relativedelta(dt1, dt2): the month difference of the two dates, moved
\* one month towards zero while dt2 plus the difference lies beyond dt1,
\* then split into years and months of the same sign
relativedelta(dt1, dt2) ==
    LET months0 == (dt1[1] - dt2[1]) * 12 + (dt1[2] - dt2[2])
        dtm == AddMonths(dt2, months0)
        months == IF DateLess(dt1, dt2)
                  THEN (IF DateLess(dtm, dt1) THEN months0 + 1 ELSE months0)
                  ELSE (IF DateLess(dt1, dtm) THEN months0 - 1 ELSE months0)
        size == IF months < 0 THEN 0 - months ELSE months
        sign == IF months < 0 THEN 0 - 1 ELSE 1
    IN  [years |-> sign * (size \div 12), months |-> sign * (size % 12)]

\* a plausible slip: the years of the delta are left out
DurationOfDelta_MonthsOnly(delta) == delta.months

\* "delta.years * 12 + delta.months"
DurationOfDelta(delta) == delta.years * 12 + delta.months

\* Optional[int] as a list: <<>> is None
_calculate_duration(start_date, end_date, today) ==
    IF start_date = NoneDate THEN <<>>
    ELSE LET end == IF end_date = NoneDate THEN today ELSE end_date
         IN  <<DurationOfDelta(relativedelta(end, start_date))>>

(***************************************************************************)
(* ExperienceParser._parse_experience_section and extract_experience       *)
(***************************************************************************)
\* Optional[Dict] as a list: the entry of one block, or no entry when the
\* block is blank or has neither a company nor a title
_parse_experience_section(section_text, today) ==
    IF Strip(section_text) = <<>> THEN <<>>
    ELSE LET company_name == _extract_company_name(section_text)
             job_title == _extract_job_title(section_text)
             dates == _extract_dates(section_text, today)
         IN  IF company_name = NoneText /\ job_title = NoneText THEN <<>>
             ELSE <<[company_name |-> company_name,
                   job_title |-> job_title,
                   start_date |-> dates.start_date,
                   end_date |-> dates.end_date,
                   is_current |-> dates.is_current,
                   duration_months |->
                       _calculate_duration(dates.start_date, dates.end_date,
                                           today)]>>

\* the loop "for section in experience_sections" with its append
RECURSIVE ParseExperienceBlocks(_, _)
ParseExperienceBlocks(blocks, today) ==
    IF blocks = <<>> THEN <<>>
    ELSE _parse_experience_section(Head(blocks), today) \o
         ParseExperienceBlocks(Tail(blocks), today)

\* the sort key "x.get('start_date', datetime.min)": every entry has the key
\* 'start_date', so the default is never used and a missing date is None
SortKey(entry) == entry.start_date

\* list.sort compares the keys with "<", which raises TypeError as soon as
\* one of two keys is None
SortRaises(entries) ==
    /\ Len(entries) >= 2
    /\ \E i \in DOMAIN entries : SortKey(entries[i]) = NoneDate

\* stable insertion of e into a list in descending key order (reverse=True
\* keeps the original order of equal keys)
RECURSIVE InsertDescending(_, _)
InsertDescending(sorted, e) ==
    IF sorted = <<>> THEN <<e>>
    ELSE IF DateLess(SortKey(Head(sorted)), SortKey(e))
         THEN <<e>> \o sorted
         ELSE <<Head(sorted)>> \o InsertDescending(Tail(sorted), e)

RECURSIVE SortDescending(_, _)
SortDescending(entries, sorted) ==
    IF entries = <<>> THEN sorted
    ELSE SortDescending(Tail(entries), InsertDescending(sorted, Head(entries)))

\* extract_experience: the sorted entries, or the exception of the sort
extract_experience(t, today) ==
    LET experiences ==
            ParseExperienceBlocks(_identify_experience_sections(t), today)
    IN  IF SortRaises(experiences)
        THEN [raised |-> "TypeError", value |-> None]
        ELSE [raised |-> None,
              value |-> IF Len(experiences) < 2 THEN experiences
                        ELSE SortDescending(experiences, <<>>)]

(***************************************************************************)
(* Specification SpecExperience: extract_experience applied to a text of   *)
(* several lines.                                                          *)
(***************************************************************************)
MaxBlockLines == 4

NowValues == {<<2026, 11, 5>>, <<2027, 3, 20>>}

ExperienceLineShapes ==
    { <<>>, <<"a">>, <<"Experience">>, <<"Skills">>,
      <<"Developer">>, <<"Developer", " ", "2019">>,
      <<"Developer", " ", "June", " ", "2021">>,
      <<"Acme", " ", "Inc">>,
      <<"2019", " ", "-", " ", "Present">> }

InitExperience ==
    /\ pc = "extract_experience"
    /\ text \in {JoinLines(ls) :
                     ls \in SeqsUpTo(ExperienceLineShapes, MaxBlockLines)}
    /\ now \in NowValues
    /\ cleaned_text = None
    /\ recleaned_text = None
    /\ sections = None
    /\ raw_skills = None
    /\ skills = None
    /\ experience = None
    /\ education = None
    /\ parsed_data = None
    /\ quality_assessment = None
    /\ raised = None
    /\ returned = None
    /\ upload_dir = None
    /\ response = None
    /\ db = None
    /\ self = ResumeParser__init__
    /\ calls = None
    /\ args = None

ExtractExperience ==
    /\ pc = "extract_experience"
    /\ LET result == extract_experience(text, now)
       IN  /\ raised' = result.raised
           /\ experience' = result.value
           /\ pc' = IF result.raised = None THEN "done" ELSE "raised"
    /\ UNCHANGED <<text, cleaned_text, recleaned_text, sections, raw_skills,
                   skills, education, parsed_data, quality_assessment, now, returned,
                   args,
                   calls,
                   self,
                   db,
                   response,
                   upload_dir>>

NextExperience == ExtractExperience

SpecExperience == InitExperience /\ [][NextExperience]_vars

\* C5: extract_experience does not raise and returns its entries most recent
\* start_date first, every entry without a start_date after all the entries
\* that have one.
C5_SortedMostRecentFirst ==
    /\ raised = None
    /\ pc = "done" =>
           \A i, j \in DOMAIN experience :
               i < j =>
                   /\ experience[i].start_date = NoneDate
                          => experience[j].start_date = NoneDate
                   /\ (experience[i].start_date # NoneDate
                       /\ experience[j].start_date # NoneDate)
                          => ~DateLess(experience[i].start_date,
                                       experience[j].start_date)

(***************************************************************************)
(* QualityAssessor: what the substring and regular-expression tests find   *)
(* in a token.  A token of a resume text may stand for a whole phrase.     *)
(* Scores are integers in units of 1/Unit, so that every quotient the code *)
(* forms (by 9, 4 and 3 checks, in tenths) is exact.                       *)
(***************************************************************************)
Unit == 7200

\* len(tok.split()): the number of whitespace-separated words of a token
WordCount(tok) ==
    CASE tok \in Whitespace                             -> 0
      [] tok = "developed, managed and led"             -> 4
      [] tok = "created and designed"                   -> 3
      [] tok = "grew 40% in 3 years for 20 customers"   -> 8
      [] tok = "work, job, position, team, project"     -> 5
      [] tok = "work, job"                              -> 2
      [] tok = "Computer Science"                       -> 2
      [] tok = "lorem x100"                             -> 100
      [] tok = "lorem x200"                             -> 200
      [] tok = "lorem x1300"                            -> 1300
      [] OTHER                                          -> 1

\* len(tok): the number of characters of a token
CharCount(tok) ==
    CASE tok \in Whitespace \cup {"*", "-", "~", ",", "a", "b"} -> 1
      [] tok = "developed, managed and led"             -> 26
      [] tok = "created and designed"                   -> 20
      [] tok = "grew 40% in 3 years for 20 customers"   -> 36
      [] tok = "work, job, position, team, project"     -> 34
      [] tok = "work, job"                              -> 9
      [] tok = "lorem x100"                             -> 599
      [] tok = "lorem x200"                             -> 1199
      [] tok = "lorem x1300"                            -> 7799
      [] tok \in {"teh", "Inc", "and"}                  -> 3
      [] tok \in YearTokens \cup {"cool", "Acme", "June"} -> 4
      [] tok \in {"Shell", "React", "react", "State"}   -> 5
      [] tok \in {"Skills", "Python", "python", "Master"} -> 6
      [] tok = "Present"                                -> 7
      [] tok \in {"Education", "Developer", "Economics"} -> 9
      [] tok \in {"Experience", "University"}           -> 10
      [] tok = "Computer Science"                       -> 16
      [] OTHER                                          -> 8

\* the verbs of action_verbs that occur in the lower-cased token
ActionVerbsIn(tok) ==
    CASE tok = "developed, managed and led"             ->
             {"developed", "managed", "led"}
      [] tok = "created and designed"                   ->
             {"created", "designed"}
      [] tok = "grew 40% in 3 years for 20 customers"   -> {"grew"}
      [] OTHER                                          -> {}

\* the number of matches of the patterns of _count_quantifiable_achievements
QuantifiedIn(tok) ==
    CASE tok = "grew 40% in 3 years for 20 customers"   -> 3
      [] tok = "40%"                                    -> 1
      [] OTHER                                          -> 0

\* the keywords of self.ats_keywords that occur in the lower-cased token
AtsKeywordsIn(tok) ==
    CASE tok = "work, job, position, team, project"     ->
             {"work", "job", "position", "team", "project"}
      [] tok = "work, job"                              -> {"work", "job"}
      [] tok = "created and designed"                   -> {"design"}
      [] tok = "Experience"                             -> {"experience"}
      [] tok = "Education"                              -> {"education"}
      [] tok = "Skills"                                 -> {"skills"}
      [] OTHER                                          -> {}

\* the tokens that contain a word of common_errors
common_errors == {"teh"}

\* the tokens that contain a word of unprofessional_words
unprofessional_words == {"cool"}

\* the tokens that contain a word of inappropriate_words ('hell' in 'shell')
inappropriate_words == {"Shell"}

\* the characters counted by _has_simple_formatting (a backquote is not
\* among the tokens)
formatting_chars == {"*", "_"}

\* the glyphs of "line.strip().startswith((bullet, '-', '*'))"
BulletGlyphs == {"-", "*"}

\* the tokens the e-mail or the phone pattern of _has_contact_info finds
ContactInfoTokens == {"jane@mail.com", "555-123-4567"}

RECURSIVE SumOver(_, _)
SumOver(F(_), t) == IF t = <<>> THEN 0 ELSE F(Head(t)) + SumOver(F, Tail(t))

\* len(text.split())
TextWordCount(t) == SumOver(WordCount, t)

\* len(text)
TextLen(t) == SumOver(CharCount, t)

(***************************************************************************)
(* QualityAssessor: the helper predicates                                  *)
(***************************************************************************)
_has_contact_info(contact_text) == Search(ContactInfoTokens, contact_text)

_has_consistent_formatting(t) ==
    LET lines == SplitLines(t)
        bullet_points ==
            Cardinality({i \in DOMAIN lines :
                Strip(lines[i]) # <<>> /\ Strip(lines[i])[1] \in BulletGlyphs})
    IN  bullet_points > 0 /\ 10 * bullet_points < 8 * Len(lines)

\* the index of the last key that contains the word, -1 when there is none
\* (the loop overwrites the index at every hit; an experience key is tested
\* first)
LastIndexOf(keys, word) ==
    LET hits == {i \in DOMAIN keys : keys[i] = word}
    IN  IF hits = {} THEN -1
        ELSE (CHOOSE i \in hits : \A j \in hits : j <= i) - 1

_has_logical_flow(secs) ==
    LET experience_index == LastIndexOf(DictKeys(secs), "experience")
        education_index == LastIndexOf(DictKeys(secs), "education")
    IN  \/ experience_index < education_index
        \/ experience_index = -1
        \/ education_index = -1

_count_action_verbs(t) ==
    Cardinality(UNION {ActionVerbsIn(t[i]) : i \in DOMAIN t})

_count_quantifiable_achievements(t) == SumOver(QuantifiedIn, t)

\* an entry whose end_date is a datetime of the last two years
_has_recent_experience(entries, today) ==
    \E i \in DOMAIN entries :
        /\ entries[i].end_date # NoneDate
        /\ entries[i].end_date[1] >= today[1] - 2

\* the fields of study that contain a word of relevant_fields
relevant_fields ==
    {"Computer Science", "Computer Engineering", "Software Engineering",
     "Information Technology", "Data Science", "Business Administration",
     "Mathematics", "Statistics"}

\* _has_relevant_education: the loop returns True at the first relevant
\* entry; "edu.get('field_of_study', '').lower()" raises AttributeError at an
\* entry whose field_of_study is None, because the key is present
RECURSIVE RelevantEducationLoop(_)
RelevantEducationLoop(entries) ==
    IF entries = <<>> THEN [raised |-> None, value |-> FALSE]
    ELSE IF Head(entries).field_of_study = None
         THEN [raised |-> "AttributeError", value |-> FALSE]
    ELSE IF Head(entries).field_of_study \in relevant_fields
         THEN [raised |-> None, value |-> TRUE]
    ELSE RelevantEducationLoop(Tail(entries))

_has_relevant_education(entries) == RelevantEducationLoop(entries)

_has_simple_formatting(t) ==
    LET count == Cardinality({i \in DOMAIN t : t[i] \in formatting_chars})
    IN  100 * count < 5 * TextLen(t)

\* the section names that contain a word of standard_headers
standard_headers == {"experience", "education", "skills", "summary", "contact"}

_is_standard_header(section_name) == section_name \in standard_headers

_has_obvious_errors(t) == Search(common_errors, t)

_has_professional_tone(t) == ~Search(unprofessional_words, t)

_has_inappropriate_language(t) == Search(inappropriate_words, t)

(***************************************************************************)
(* QualityAssessor: the five component scores                              *)
(***************************************************************************)
\* "score += 0.x": x tenths of a point
Tenths(x) == (x * Unit) \div 10

\* bool as the 1.0 or 0.0 added to a score
Point(b) == IF b THEN Unit ELSE 0

required_sections == <<"contact", "summary", "experience", "education", "skills">>

SkillsPresent(skill_map) ==
    \E c \in DOMAIN skill_map : Len(skill_map[c]) > 0

_assess_completeness(secs, skill_map, experience_list, education_list) ==
    LET present(name) == DictHas(secs, name) /\ Strip(DictGet(secs, name)) # <<>>
        score ==
            SumOver(LAMBDA name : Point(present(name)), required_sections)
            + Point(SkillsPresent(skill_map))
            + Point(Len(experience_list) > 0)
            + Point(Len(education_list) > 0)
            + Point(DictHas(secs, "contact")
                    /\ _has_contact_info(DictGet(secs, "contact")))
    IN  score \div 9

\* the word-count band of _assess_structure
LengthScore(word_count) ==
    IF 200 <= word_count /\ word_count <= 800 THEN Unit
    ELSE IF 100 <= word_count /\ word_count <= 1200 THEN Tenths(7)
    ELSE IF word_count > 1200 THEN Tenths(3)
    ELSE 0

_assess_structure(t, secs) ==
    ( Point(Len(secs) >= 3)
    + Point(_has_consistent_formatting(t))
    + Point(_has_logical_flow(secs))
    + LengthScore(TextWordCount(t)) ) \div 4

ActionVerbScore(action_verbs) ==
    IF action_verbs >= 5 THEN Unit
    ELSE IF action_verbs >= 3 THEN Tenths(7)
    ELSE IF action_verbs >= 1 THEN Tenths(4)
    ELSE 0

QuantifiableScore(quantifiable) ==
    IF quantifiable >= 3 THEN Unit
    ELSE IF quantifiable >= 1 THEN Tenths(6)
    ELSE 0

\* the score, or the exception of _has_relevant_education ("if education and
\* ..." calls it only for a non-empty list)
_assess_content_quality(t, experience_list, education_list, today) ==
    LET relevant == IF education_list = <<>>
                    THEN [raised |-> None, value |-> FALSE]
                    ELSE _has_relevant_education(education_list)
    IN  [raised |-> relevant.raised,
         value |->
            ( ActionVerbScore(_count_action_verbs(t))
            + QuantifiableScore(_count_quantifiable_achievements(t))
            + Point(experience_list # <<>>
                    /\ _has_recent_experience(experience_list, today))
            + Point(relevant.value) ) \div 4]

KeywordScore(keyword_matches) ==
    IF keyword_matches >= 8 THEN Unit
    ELSE IF keyword_matches >= 5 THEN Tenths(7)
    ELSE IF keyword_matches >= 3 THEN Tenths(4)
    ELSE 0

HeaderScore(n) ==
    IF n >= 3 THEN Unit
    ELSE IF n >= 2 THEN Tenths(7)
    ELSE 0

_assess_ats_compatibility(t, secs) ==
    ( KeywordScore(Cardinality(UNION {AtsKeywordsIn(t[i]) : i \in DOMAIN t}))
    + Point(_has_simple_formatting(t))
    + HeaderScore(Cardinality({i \in DOMAIN secs :
                                   _is_standard_header(secs[i].name)})) ) \div 3

_assess_professionalism(t) ==
    ( Point(~_has_obvious_errors(t))
    + Point(_has_professional_tone(t))
    + Point(~_has_inappropriate_language(t)) ) \div 3

(***************************************************************************)
(* QualityAssessor.assess_resume_quality and _calculate_grade              *)
(***************************************************************************)
\* The scores of the code are doubles.  A double differs from the rational
\* number the model computes by a rounding error far below any distance the
\* code compares, so it decides differently only where the rational number
\* sits exactly on a boundary: there the outcome follows the error of the
\* double, "below" the rational number or not ("above").
FloatError == {"below", "above"}

\* the scores whose rational value can sit on a boundary
FloatScores == {"structure", "content_quality", "overall_score"}

\* round(score, 2), in hundredths: the nearest hundredth; at a tie of the
\* rational value the side the double lies on
Round2(score, err) ==
    LET q == score \div (Unit \div 100)
        r == score % (Unit \div 100)
        half == Unit \div 200
    IN  IF r < half THEN q
        ELSE IF r > half THEN q + 1
        ELSE IF err = "below" THEN q ELSE q + 1

\* a plausible slip: ">" where the code has ">="
AtLeast_Strict(score, threshold, err) == score > threshold

\* "score >= threshold" for a double score
AtLeast(score, threshold, err) ==
    score > threshold \/ (score = threshold /\ err = "above")

\* a score given in hundredths, in units of 1/Unit
Hundredths(h) == h * (Unit \div 100)

_calculate_grade(score, err) ==
    IF AtLeast(score, Hundredths(90), err) THEN "A+"
    ELSE IF AtLeast(score, Hundredths(85), err) THEN "A"
    ELSE IF AtLeast(score, Hundredths(80), err) THEN "A-"
    ELSE IF AtLeast(score, Hundredths(75), err) THEN "B+"
    ELSE IF AtLeast(score, Hundredths(70), err) THEN "B"
    ELSE IF AtLeast(score, Hundredths(65), err) THEN "B-"
    ELSE IF AtLeast(score, Hundredths(60), err) THEN "C+"
    ELSE IF AtLeast(score, Hundredths(55), err) THEN "C"
    ELSE IF AtLeast(score, Hundredths(50), err) THEN "C-"
    ELSE "D"

\* "score < 0.7" for a double score
Below(score, threshold, err) ==
    score < threshold \/ (score = threshold /\ err = "below")

\* the ATS score is the only one whose rational value can be 0.7: with
\* 0.4 for the keywords, 1.0 for the formatting and 0.7 for the headers.
\* The code adds in this order from 0.0, the doubles give
\* 2.0999999999999996, and the third of it lies below 0.7
ats_error == "below"

suggestion_messages ==
    <<"Add missing required sections (contact, summary, experience, education, skills)",
      "Improve resume structure with clear section headers and consistent formatting",
      "Add more action verbs and quantifiable achievements to make your experience stand out",
      "Include more industry-specific keywords to improve ATS compatibility",
      "Review and improve writing quality and professional tone",
      "Add a comprehensive skills section with technical and soft skills",
      "Include relevant work experience with specific achievements",
      "Add your educational background and relevant certifications">>

\* the messages whose "if" holds, in the order of the "if" statements
Appended(conditions) ==
    SelectSeq(<<1, 2, 3, 4, 5, 6, 7, 8>>, LAMBDA k : conditions[k])

_generate_suggestions(completeness, structure, content, ats, professionalism, section_map, skill_map, experience_list, education_list) ==
    LET conditions ==
            <<Below(completeness, Tenths(7), "above"),
              Below(structure, Tenths(7), "above"),
              Below(content, Tenths(7), "above"),
              Below(ats, Tenths(7), ats_error),
              Below(professionalism, Tenths(7), "above"),
              ~SkillsPresent(skill_map),
              experience_list = <<>>,
              education_list = <<>> >>
        appended == Appended(conditions)
    IN  [i \in DOMAIN appended |-> suggestion_messages[appended[i]]]

\* the outcomes of the method, one for each way the doubles of FloatScores
\* can err (the other three scores are ninths or thirds of tenths and never
\* sit on a boundary of round): the assessment, or the exception that left
\* the method.  The grade is computed from the unrounded overall score, the
\* reported scores are rounded.  The field locals holds the unrounded scores
\* the five helper methods returned and the local overall_score.
assess_resume_quality(data, today) ==
    LET t == data.cleaned_text
        secs == data.sections
        completeness_score ==
            _assess_completeness(secs, data.skills, data.experience,
                                 data.education)
        structure_score == _assess_structure(t, secs)
        content == _assess_content_quality(t, data.experience, data.education,
                                           today)
        content_score == content.value
        ats_score == _assess_ats_compatibility(t, secs)
        professionalism_score == _assess_professionalism(t)
        overall_score ==
            ( completeness_score * self.criteria_weights.completeness
            + structure_score * self.criteria_weights.structure
            + content_score * self.criteria_weights.content_quality
            + ats_score * self.criteria_weights.ats_compatibility
            + professionalism_score * self.criteria_weights.professionalism )
            \div 100
        completeness == Round2(completeness_score, "above")
        ats_compatibility == Round2(ats_score, "above")
        professionalism == Round2(professionalism_score, "above")
    IN  IF content.raised # None
        THEN {[raised |-> content.raised, value |-> None, locals |-> None]}
        ELSE {[raised |-> None,
               locals |->
                 [completeness |-> completeness_score,
                  structure |-> structure_score,
                  content_quality |-> content_score,
                  ats_compatibility |-> ats_score,
                  professionalism |-> professionalism_score,
                  overall_score |-> overall_score],
               value |->
                 [overall_score |-> Round2(overall_score, fp.overall_score),
                  scores |->
                     [completeness |-> completeness,
                      structure |-> Round2(structure_score, fp.structure),
                      content_quality |->
                          Round2(content_score, fp.content_quality),
                      ats_compatibility |-> ats_compatibility,
                      professionalism |-> professionalism],
                  suggestions |->
                      _generate_suggestions(completeness_score,
                          structure_score, content_score, ats_score,
                          professionalism_score, data.sections,
                          data.skills, data.experience, data.education),
                  grade |-> _calculate_grade(overall_score,
                                             fp.overall_score)]] :
                 fp \in [FloatScores -> FloatError]}

(***************************************************************************)
(* Specification SpecQuality: assess_resume_quality applied to a parsed    *)
(* profile, as assess_quality_only hands it over.                          *)
(***************************************************************************)
MaxQualityLines == 2

NoSkills == [c \in SkillCategories |-> <<>>]

QualityLineShapes ==
    { <<"developed, managed and led">>,
      <<"-", " ", "created and designed">>,
      <<"grew 40% in 3 years for 20 customers">>,
      <<"work, job, position, team, project">>, <<"work, job">>,
      <<"lorem x200">>, <<"lorem x1300">>,
      <<"teh">>, <<"Experience">>, <<"*">> }

QualitySections ==
    { <<>>,
      <<[name |-> "header", content |-> <<"a">>]>>,
      <<[name |-> "contact", content |-> <<"jane@mail.com">>],
        [name |-> "summary", content |-> <<"a">>],
        [name |-> "experience", content |-> <<"Developer">>],
        [name |-> "education", content |-> <<"b">>],
        [name |-> "skills", content |-> <<"a">>]>>,
      <<[name |-> "education", content |-> <<"b">>],
        [name |-> "experience", content |-> <<"Developer">>],
        [name |-> "skills", content |-> <<"a">>]>>,
      <<[name |-> "contact", content |-> <<"a">>],
        [name |-> "experience", content |-> <<"Developer">>]>> }

QualitySkills ==
    { NoSkills,
      [NoSkills EXCEPT !["programming_languages"] =
          <<[skill_name |-> "Python", category |-> "programming_languages",
             confidence |-> 80, extraction_method |-> "pattern",
             context |-> "ctx1"]>>] }

QualityExperience ==
    { <<>>,
      <<[company_name |-> NoneText, job_title |-> <<"Developer">>,
         start_date |-> <<2021, 1, 1>>, end_date |-> <<2026, 1, 1>>,
         is_current |-> FALSE]>>,
      <<[company_name |-> NoneText, job_title |-> <<"Developer">>,
         start_date |-> <<2019, 1, 1>>, end_date |-> NoneDate,
         is_current |-> FALSE]>> }

EducationWithField(field) ==
    [institution_name |-> <<"State">>, degree |-> "Bachelor",
     field_of_study |-> field, start_date |-> NoneDate, end_date |-> NoneDate]

QualityEducation ==
    { <<>>,
      <<EducationWithField("Computer Science")>>,
      <<EducationWithField("Economics")>>,
      <<EducationWithField(None)>>,
      <<EducationWithField("Computer Science"), EducationWithField(None)>> }

InitQuality ==
    /\ pc = "assess"
    /\ parsed_data \in
           [cleaned_text : {JoinLines(ls) :
                ls \in SeqsUpTo(QualityLineShapes, MaxQualityLines)},
            sections : QualitySections,
            skills : QualitySkills,
            experience : QualityExperience,
            education : QualityEducation]
    /\ now \in NowValues
    /\ text = None
    /\ cleaned_text = None
    /\ recleaned_text = None
    /\ sections = None
    /\ raw_skills = None
    /\ skills = None
    /\ experience = None
    /\ education = None
    /\ quality_assessment = None
    /\ raised = None
    /\ returned = None
    /\ upload_dir = None
    /\ response = None
    /\ db = None
    /\ self = ResumeParser__init__
    /\ calls = None
    /\ args = None

AssessQuality ==
    /\ pc = "assess"
    /\ \E result \in assess_resume_quality(parsed_data, now) :
           /\ raised' = result.raised
           /\ quality_assessment' = result.value
           /\ returned' = result.locals
           /\ pc' = IF result.raised = None THEN "done" ELSE "raised"
    /\ UNCHANGED <<text, cleaned_text, recleaned_text, sections, raw_skills,
                   skills, experience, education, parsed_data, now, args,
                   calls,
                   self,
                   db,
                   response,
                   upload_dir>>

NextQuality == AssessQuality

SpecQuality == InitQuality /\ [][NextQuality]_vars

\* C6: in every assessment the grade is the step function of the reported
\* overall_score: a reported overall_score of at least 0.90 comes with "A+",
\* and likewise at every other boundary.
C6_GradeOfReportedScore ==
    pc = "done" =>
        quality_assessment.grade =
            _calculate_grade(Hundredths(quality_assessment.overall_score),
                             "above")

(***************************************************************************)
(* EducationParser                                                         *)
(***************************************************************************)
\* the words the regular expressions of education_headers find
education_headers == {"Education"}

\* the words the regular expressions of major_sections find
education_major_sections == {"Experience", "Skills", "Projects"}

_identify_education_sections(t) ==
    ScanBlocks(SplitLines(t), <<>>, FALSE, <<>>,
               education_headers, education_major_sections)

\* the words that start with a suffix of the first pattern; the second
\* pattern matches only where the first one does
InstitutionSuffix == {"University", "College", "Institute", "School"}

_extract_institution_name(t) == SearchNameBeforeSuffix(t, InstitutionSuffix)

\* self.field_patterns, in the order of the list
field_patterns == <<"Computer Science", "Economics">>

\* the first literal of the list that re.search finds in the text, or None
RECURSIVE FirstFound(_, _)
FirstFound(literals, t) ==
    IF literals = <<>> THEN None
    ELSE IF \E i \in DOMAIN t : t[i] = Head(literals) THEN Head(literals)
    ELSE FirstFound(Tail(literals), t)

_extract_degree_info(t) ==
    [degree |-> FirstFound(self.degree_patterns, t),
     field_of_study |-> FirstFound(field_patterns, t)]

\* int() of what re.findall returns for one year: the pattern has one group,
\* "(19|20)", so findall returns the text of the group, not the whole match
FindallYearGroup(tok) == YearOf(tok) \div 100

\* re.findall(r'\b(19|20)\d{2}\b', text), as integers
RECURSIVE FindallYears(_)
FindallYears(t) ==
    IF t = <<>> THEN <<>>
    ELSE IF Head(t) \in YearTokens
         THEN <<FindallYearGroup(Head(t))>> \o FindallYears(Tail(t))
    ELSE FindallYears(Tail(t))

_extract_education_dates(t) ==
    LET years == FindallYears(t)
    IN  IF Len(years) >= 2
        THEN [start_date |-> <<years[1], 1, 1>>,
              end_date |-> <<years[2], 12, 31>>]
        ELSE IF Len(years) = 1
        THEN [start_date |-> <<years[1], 1, 1>>, end_date |-> NoneDate]
        ELSE [start_date |-> NoneDate, end_date |-> NoneDate]

\* [:\s]* from position i: the first position that is neither ":" nor
\* whitespace
RECURSIVE SkipColonSpace(_, _)
SkipColonSpace(t, i) ==
    IF i <= Len(t) /\ (t[i] = ":" \/ IsSpace(t[i]))
    THEN SkipColonSpace(t, i + 1) ELSE i

\* re.search(r'GPA[:\s]*(\d+\.\d+)'): the positions of "GPA" that a number
\* with a decimal point follows
GpaMatches(t) ==
    {i \in DOMAIN t :
        /\ t[i] \in {"GPA", "gpa"}
        /\ At(t, SkipColonSpace(t, i + 1)) \in DecimalTokens}

\* a plausible slip: the range check is left out
GpaInRange_Any(gpa) == TRUE

\* "0.0 <= gpa <= 4.0", gpa in tenths
GpaInRange(gpa) == 0 <= gpa /\ gpa <= 40

\* Optional[float] as a list, the value in tenths: the number of the first
\* match when it is in range
_extract_gpa(t) ==
    IF GpaMatches(t) = {} THEN <<>>
    ELSE LET i == CHOOSE x \in GpaMatches(t) : \A y \in GpaMatches(t) : x <= y
             gpa == DecimalTenths(t[SkipColonSpace(t, i + 1)])
         IN  IF GpaInRange(gpa) THEN <<gpa>> ELSE <<>>

\* Optional[Dict] as a list: the entry of one block, or no entry when the
\* block is blank or has neither an institution nor a degree
_parse_education_section(section_text) ==
    IF Strip(section_text) = <<>> THEN <<>>
    ELSE LET institution_name == _extract_institution_name(section_text)
             info == _extract_degree_info(section_text)
             dates == _extract_education_dates(section_text)
         IN  IF institution_name = NoneText /\ info.degree = None THEN <<>>
             ELSE <<[institution_name |-> institution_name,
                   degree |-> info.degree,
                   field_of_study |-> info.field_of_study,
                   start_date |-> dates.start_date,
                   end_date |-> dates.end_date,
                   gpa |-> _extract_gpa(section_text)]>>

\* the loop "for section in education_sections" with its append
\* a plausible slip: the loop ends at the first block that gives no entry
RECURSIVE ParseEducationBlocks_StopAtDiscard(_)
ParseEducationBlocks_StopAtDiscard(blocks) ==
    IF blocks = <<>> \/ _parse_education_section(Head(blocks)) = <<>>
    THEN <<>>
    ELSE _parse_education_section(Head(blocks)) \o
         ParseEducationBlocks_StopAtDiscard(Tail(blocks))

RECURSIVE ParseEducationBlocks(_)
ParseEducationBlocks(blocks) ==
    IF blocks = <<>> THEN <<>>
    ELSE _parse_education_section(Head(blocks)) \o
         ParseEducationBlocks(Tail(blocks))

extract_education(t) == ParseEducationBlocks(_identify_education_sections(t))

(***************************************************************************)
(* Specification of extract_education over bounded texts                   *)
(***************************************************************************)
MaxEducationLines == 4

EducationLineShapes ==
    { <<>>, <<"a">>, <<"Education">>, <<"Experience">>,
      <<"Bachelor">>, <<"Bachelor", " ", "Computer Science">>,
      <<"State", " ", "University">>,
      <<"2019">>, <<"1999", " ", "-", " ", "2021">>,
      <<"GPA", ":", " ", "3.8">>, <<"GPA", ":", " ", "4.0">>,
      <<"GPA", ":", " ", "5.0">>, <<"GPA", " ", "4">> }

InitEducation ==
    /\ pc = "extract_education"
    /\ text \in {JoinLines(ls) :
                     ls \in SeqsUpTo(EducationLineShapes, MaxEducationLines)}
    /\ now = None
    /\ cleaned_text = None
    /\ recleaned_text = None
    /\ sections = None
    /\ raw_skills = None
    /\ skills = None
    /\ experience = None
    /\ education = None
    /\ parsed_data = None
    /\ quality_assessment = None
    /\ raised = None
    /\ returned = None
    /\ upload_dir = None
    /\ response = None
    /\ db = None
    /\ self = ResumeParser__init__
    /\ calls = None
    /\ args = None

ExtractEducation ==
    /\ pc = "extract_education"
    /\ education' = extract_education(text)
    /\ pc' = "done"
    /\ UNCHANGED <<text, cleaned_text, recleaned_text, sections, raw_skills,
                   skills, experience, parsed_data, quality_assessment,
                   raised, now, returned,
                   args,
                   calls,
                   self,
                   db,
                   response,
                   upload_dir>>

NextEducation == ExtractEducation

SpecEducation == InitEducation /\ [][NextEducation]_vars

\* the blocks of a text that give an entry, in order
RECURSIVE BlocksWithEntry(_)
BlocksWithEntry(blocks) ==
    IF blocks = <<>> THEN <<>>
    ELSE (IF _parse_education_section(Head(blocks)) = <<>> THEN <<>>
          ELSE <<Head(blocks)>>) \o BlocksWithEntry(Tail(blocks))

\* the four-digit years of a block, in order
RECURSIVE YearsOfBlock(_)
YearsOfBlock(t) ==
    IF t = <<>> THEN <<>>
    ELSE (IF Head(t) \in YearTokens THEN <<YearOf(Head(t))>> ELSE <<>>)
         \o YearsOfBlock(Tail(t))

\* C10: a block with one four-digit year Y gets start_date January 1 of Y and
\* no end_date; a block with two or more gets start_date January 1 of the
\* first year and end_date December 31 of the second; a block with none gets
\* neither date.
C10_EducationDates ==
    pc = "done" =>
        LET blocks == BlocksWithEntry(_identify_education_sections(text))
        IN  /\ Len(education) = Len(blocks)
            /\ \A i \in DOMAIN education :
                   LET years == YearsOfBlock(blocks[i])
                   IN  /\ education[i].start_date =
                              IF Len(years) >= 1 THEN <<years[1], 1, 1>>
                              ELSE NoneDate
                       /\ education[i].end_date =
                              IF Len(years) >= 2 THEN <<years[2], 12, 31>>
                              ELSE NoneDate

(***************************************************************************)
(* SkillExtractor.extract_skills                                           *)
(***************************************************************************)
\* \b on both sides of the word at position i
WordBoundary(t, i) ==
    /\ i = 1 \/ ~IsWord(t[i - 1])
    /\ i = Len(t) \/ ~IsWord(t[i + 1])

\* match.start() of the word at position i
StartOf(t, i) == SumOver(CharCount, SubSeq(t, 1, i - 1))

Min(a, b) == IF a <= b THEN a ELSE b

\* the slice bounds of "text[max(0, match.start()-50):match.end()+50]"
ContextOf(t, i) ==
    [from |-> Max(0, StartOf(t, i) - 50),
     to |-> Min(TextLen(t), StartOf(t, i) + CharCount(t[i]) + 50)]

\* the mentions re.finditer gives for one category, in text order
RECURSIVE PatternMentions(_, _, _)
PatternMentions(category, t, i) ==
    IF i > Len(t) THEN <<>>
    ELSE (IF t[i] \in PatternWords(category) /\ WordBoundary(t, i)
          THEN <<[skill_name |-> t[i], category |-> category,
                  confidence |-> 80, extraction_method |-> "pattern",
                  context |-> ContextOf(t, i)]>>
          ELSE <<>>) \o PatternMentions(category, t, i + 1)

_extract_skills_patterns(t) ==
    [category \in DOMAIN self.skill_categories |->
        PatternMentions(category, t, 1)]

\* a plausible slip: the pattern method runs only when the other methods
\* found nothing
extract_skills_ShortCircuit(t, spacy_skills, bert_skills) ==
    LET found == \E category \in SkillCategories :
                     spacy_skills[category] \o bert_skills[category] # <<>>
        pattern_skills == _extract_skills_patterns(t)
        results == [category \in SkillCategories |->
                        spacy_skills[category] \o bert_skills[category]
                        \o (IF found THEN <<>> ELSE pattern_skills[category])]
    IN  [category \in SkillCategories |->
            _deduplicate_skills(results[category])]

\* extract_skills: spacy_skills and bert_skills are what the two optional
\* methods add; each is skipped, and adds nothing, when its model is not
\* loaded (self.nlp, self.matcher, self.bert_ner are None)
extract_skills(t, spacy_skills, bert_skills) ==
    LET pattern_skills == _extract_skills_patterns(t)
        results == [category \in SkillCategories |->
                        spacy_skills[category] \o bert_skills[category]
                        \o pattern_skills[category]]
    IN  [category \in SkillCategories |->
            _deduplicate_skills(results[category])]

\* the keys of self.skill_categories in the order of the dict
CategoryOrder ==
    <<"programming_languages", "frameworks", "databases", "cloud_platforms",
      "tools", "soft_skills", "languages", "certifications">>

\* "small in big" for two lower-cased names of the model
Contains(big, small) ==
    \/ small = big
    \/ small = "react" /\ big = "react native"

\* _categorize_skill: the first category with a skill that contains the
\* name or is contained in it, or None
_categorize_skill(skill_name) ==
    LET skill_lower == Lower(skill_name)
        hit(category) ==
            \E skill \in self.skill_categories[category] :
                \/ Contains(skill_lower, Lower(skill))
                \/ Contains(Lower(skill), skill_lower)
        hits == {k \in DOMAIN CategoryOrder : hit(CategoryOrder[k])}
    IN  IF hits = {} THEN None
        ELSE CategoryOrder[CHOOSE k \in hits : \A j \in hits : k <= j]

\* the tokens whose lower-cased text contains a word of positive_words, and
\* of negative_words
PositiveCues == {"Experience"}

NegativeCues == {"learning"}

\* the words of the text, which are the tokens of the spaCy doc
WordPositions(t) == {i \in DOMAIN t : IsWord(t[i])}

\* the words of doc[max(0, i - n) : min(len(doc), i + 1 + n)], for the word
\* at position i of the text
Window(t, i, n) ==
    {j \in WordPositions(t) :
        /\ Cardinality({k \in WordPositions(t) : j <= k /\ k < i}) <= n
        /\ Cardinality({k \in WordPositions(t) : i < k /\ k <= j}) <= n}

\* _calculate_skill_confidence, in hundredths: each cue word counts once
_calculate_skill_confidence(t, i) ==
    LET context == {t[j] : j \in Window(t, i, 5)}
        base == 50 + (IF _categorize_skill(t[i]) # None THEN 30 ELSE 0)
        confidence == base
                      + (IF context \cap PositiveCues # {} THEN 10 ELSE 0)
                      - (IF context \cap NegativeCues # {} THEN 10 ELSE 0)
    IN  Min(100, Max(0, confidence))

\* _get_skill_context: doc[max(0, start - 10) : min(len(doc), end + 10)],
\* as the offsets of its first and last character
SpacyContext(t, i) ==
    LET window == Window(t, i, 10)
        first == CHOOSE j \in window : \A k \in window : j <= k
        last == CHOOSE j \in window : \A k \in window : k <= j
    IN  [from |-> StartOf(t, first),
         to |-> StartOf(t, last) + CharCount(t[last])]

\* the matches of self.matcher for one category, in text order: the patterns
\* _setup_spacy_matchers made of the vocabulary match a word by its
\* lower-cased text
RECURSIVE SpacyMentions(_, _, _)
SpacyMentions(category, t, i) ==
    IF i > Len(t) THEN <<>>
    ELSE (IF /\ IsWord(t[i])
             /\ \E skill \in default_skills(category) :
                    Lower(t[i]) = Lower(skill)
          THEN <<[skill_name |-> t[i], category |-> category,
                  confidence |-> _calculate_skill_confidence(t, i),
                  extraction_method |-> "spacy",
                  context |-> SpacyContext(t, i)]>>
          ELSE <<>>) \o SpacyMentions(category, t, i + 1)

\* _extract_skills_spacy when self.nlp and self.matcher are set: self.nlp(text)
\* is not in a try block, what it raises leaves the method
_extract_skills_spacy(t) ==
    IF self.nlp[1].outcome # "ok"
    THEN [raised |-> self.nlp[1].outcome, value |-> None]
    ELSE [raised |-> None,
          value |-> [category \in DOMAIN self.skill_categories |->
                        SpacyMentions(category, t, 1)]]

\* "if entity['score'] > 0.7"
ScoreThreshold == 70

\* the entities self.bert_ner gives for a chunk that pass the threshold and
\* that _categorize_skill puts into the category, in text order; the model
\* scores the words it knows
RECURSIVE BertMentions(_, _, _)
BertMentions(category, t, i) ==
    IF i > Len(t) THEN <<>>
    ELSE (IF /\ t[i] \in DOMAIN self.bert_ner[1].scores
             /\ self.bert_ner[1].scores[t[i]] > ScoreThreshold
             /\ _categorize_skill(t[i]) = category
          THEN <<[skill_name |-> t[i], category |-> category,
                  confidence |-> self.bert_ner[1].scores[t[i]],
                  extraction_method |-> "bert",
                  context |-> ContextOf(t, i)]>>
          ELSE <<>>) \o BertMentions(category, t, i + 1)

\* _extract_skills_bert when self.bert_ner is set: a text of the model is
\* one chunk of at most 512 characters, the empty text has no chunk and the
\* model is not called; an exception gives {}, which adds nothing
_extract_skills_bert(t) ==
    IF t # <<>> /\ self.bert_ner[1].outcome # "ok"
    THEN NoSkills
    ELSE [category \in DOMAIN self.skill_categories |->
             BertMentions(category, t, 1)]

\* SkillExtractor.extract_skills on the instance: the methods whose model is
\* loaded run, then the pattern method, then the merge
SkillExtractor_extract_skills(t) ==
    LET spacy_skills == IF self.nlp # <<>> THEN _extract_skills_spacy(t)
                        ELSE [raised |-> None, value |-> NoSkills]
        bert_skills == IF self.bert_ner # <<>> THEN _extract_skills_bert(t)
                       ELSE NoSkills
    IN  IF spacy_skills.raised # None
        THEN [raised |-> spacy_skills.raised, value |-> None]
        ELSE [raised |-> None,
              value |-> extract_skills(t, spacy_skills.value, bert_skills)]

(***************************************************************************)
(* ResumeParser.parse_resume_text, one step per statement of the try block *)
(***************************************************************************)
MaxPipelineLines == 3

PipelineLineShapes ==
    { <<>>, <<"a">>, <<"Experience">>, <<"Education">>,
      <<"Developer", " ", "2019">>,
      <<"Bachelor">>, <<"Bachelor", " ", "Computer Science">>,
      <<"Python", " ", "React">>,
      <<"developed, managed and led">> }

InitPipeline ==
    /\ pc = "clean_text"
    /\ text \in {JoinLines(ls) :
                     ls \in SeqsUpTo(PipelineLineShapes, MaxPipelineLines)}
    /\ now \in NowValues
    /\ cleaned_text = None
    /\ recleaned_text = None
    /\ sections = None
    /\ raw_skills = None
    /\ skills = None
    /\ experience = None
    /\ education = None
    /\ parsed_data = None
    /\ quality_assessment = None
    /\ raised = None
    /\ returned = None
    /\ upload_dir = None
    /\ response = None
    /\ db = None
    /\ self = ResumeParser__init__
    /\ calls = None
    /\ args = None

ParseCleanText ==
    /\ pc = "clean_text"
    /\ cleaned_text' = _clean_text(text)
    /\ pc' = "identify_sections"
    /\ UNCHANGED <<text, recleaned_text, sections, raw_skills, skills,
                   experience, education, parsed_data, quality_assessment,
                   raised, now, returned,
                   args,
                   calls,
                   self,
                   db,
                   response,
                   upload_dir>>

ParseIdentifySections ==
    /\ pc = "identify_sections"
    /\ sections' = identify_sections(cleaned_text)
    /\ pc' = "extract_skills"
    /\ UNCHANGED <<text, cleaned_text, recleaned_text, raw_skills, skills,
                   experience, education, parsed_data, quality_assessment,
                   raised, now, returned,
                   args,
                   calls,
                   self,
                   db,
                   response,
                   upload_dir>>

ParseExtractSkills ==
    /\ pc = "extract_skills"
    /\ skills' = extract_skills(cleaned_text, NoSkills, NoSkills)
    /\ pc' = "extract_experience"
    /\ UNCHANGED <<text, cleaned_text, recleaned_text, sections, raw_skills,
                   experience, education, parsed_data, quality_assessment,
                   raised, now, returned,
                   args,
                   calls,
                   self,
                   db,
                   response,
                   upload_dir>>

ParseExtractExperience ==
    /\ pc = "extract_experience"
    /\ LET result == extract_experience(cleaned_text, now)
       IN  /\ raised' = result.raised
           /\ experience' = result.value
           /\ pc' = IF result.raised = None THEN "extract_education"
                    ELSE "raised"
    /\ UNCHANGED <<text, cleaned_text, recleaned_text, sections, raw_skills,
                   skills, education, parsed_data, quality_assessment, now, returned,
                   args,
                   calls,
                   self,
                   db,
                   response,
                   upload_dir>>

ParseExtractEducation ==
    /\ pc = "extract_education"
    /\ education' = extract_education(cleaned_text)
    /\ pc' = "assess_quality"
    /\ UNCHANGED <<text, cleaned_text, recleaned_text, sections, raw_skills,
                   skills, experience, parsed_data, quality_assessment,
                   raised, now, returned,
                   args,
                   calls,
                   self,
                   db,
                   response,
                   upload_dir>>

ParseAssessQuality ==
    /\ pc = "assess_quality"
    /\ LET data == [cleaned_text |-> cleaned_text, sections |-> sections,
                    skills |-> skills, experience |-> experience,
                    education |-> education]
       IN  \E result \in assess_resume_quality(data, now) :
               /\ parsed_data' = data
               /\ raised' = result.raised
               /\ quality_assessment' = result.value
               /\ pc' = IF result.raised = None THEN "compile_results"
                        ELSE "raised"
    /\ UNCHANGED <<text, cleaned_text, recleaned_text, sections, raw_skills,
                   skills, experience, education, now, returned,
                   args,
                   calls,
                   self,
                   db,
                   response,
                   upload_dir>>

\* the results dict is made of the values the steps left; it is returned
ParseCompileResults ==
    /\ pc = "compile_results"
    /\ pc' = "done"
    /\ UNCHANGED <<text, cleaned_text, recleaned_text, sections, raw_skills,
                   skills, experience, education, parsed_data,
                   quality_assessment, raised, now, returned,
                   args,
                   calls,
                   self,
                   db,
                   response,
                   upload_dir>>

NextPipeline ==
    \/ ParseCleanText
    \/ ParseIdentifySections
    \/ ParseExtractSkills
    \/ ParseExtractExperience
    \/ ParseExtractEducation
    \/ ParseAssessQuality
    \/ ParseCompileResults

SpecPipeline == InitPipeline /\ [][NextPipeline]_vars

\* C7: parse_resume_text("") does not raise and returns an empty section
\* map, an empty list for every skill category, empty experience and
\* education lists, and a quality assessment whose overall_score is 0.
C7_EmptyTextZeroScore ==
    text = <<>> =>
        /\ raised = None
        /\ pc = "done" =>
               /\ sections = <<>>
               /\ \A category \in SkillCategories : skills[category] = <<>>
               /\ experience = <<>>
               /\ education = <<>>
               /\ quality_assessment.overall_score = 0

\* C8: no step of parse_resume_text raises, whatever profile the extractors
\* produced: assess_resume_quality returns an assessment also when an
\* education entry has no field_of_study or an experience entry no end_date.
C8_NoStageRaises == raised = None

\* the labels of the header lines of a text that are directly followed by a
\* line of content
HeadersWithContent(t) ==
    LET lines == SplitLines(t)
    IN  {MatchedSection(lines[i]) : i \in
            {j \in 1..(Len(lines) - 1) :
                /\ MatchedSection(lines[j]) # None
                /\ MatchedSection(lines[j + 1]) = None
                /\ Strip(lines[j + 1]) # <<>>}}

\* C9: the section segmenter is handed a text that still has the line breaks
\* of the input, so that every header line of the input that is followed by
\* a line of content gives a section under its label.
C9_SectionPerHeader ==
    sections # None =>
        \A label \in HeadersWithContent(text) : DictHas(sections, label)

(***************************************************************************)
(* Specification of ExperienceParser._extract_dates over bounded texts     *)
(***************************************************************************)
MaxDateLines == 3

DateLineShapes ==
    { <<"a">>, <<"Present">>, <<"2021">>,
      <<"2019", " ", "-", " ", "Present">>, <<"2019", "-", "Current">>,
      <<"2019", " ", "-", " ", "2021">>,
      <<"Developer", " ", "2019">>, <<"June", " ", "2021">> }

InitDates ==
    /\ pc = "extract_dates"
    /\ text \in {JoinLines(ls) : ls \in SeqsUpTo(DateLineShapes, MaxDateLines)}
    /\ now \in NowValues
    /\ cleaned_text = None
    /\ recleaned_text = None
    /\ sections = None
    /\ raw_skills = None
    /\ skills = None
    /\ experience = None
    /\ education = None
    /\ parsed_data = None
    /\ quality_assessment = None
    /\ raised = None
    /\ returned = None
    /\ upload_dir = None
    /\ response = None
    /\ db = None
    /\ self = ResumeParser__init__
    /\ calls = None
    /\ args = None

ExtractDates ==
    /\ pc = "extract_dates"
    /\ returned' = _extract_dates(text, now)
    /\ pc' = "done"
    /\ UNCHANGED <<text, cleaned_text, recleaned_text, sections, raw_skills,
                   skills, experience, education, parsed_data,
                   quality_assessment, raised, now,
                   args,
                   calls,
                   self,
                   db,
                   response,
                   upload_dir>>

NextDates == ExtractDates

SpecDates == InitDates /\ [][NextDates]_vars

\* the text holds a range "YYYY - Present" or "YYYY - Current" and no other
\* year
HasOpenRange(t) ==
    /\ Cardinality({i \in DOMAIN t : t[i] \in YearTokens}) = 1
    /\ \E i \in DOMAIN t :
           /\ MatchEnd(4, t, i) # 0
           /\ t[MatchEnd(4, t, i)] \in {"Present", "Current"}

MaxDurationYears == 2

DurationDates ==
    {dt \in (2019..(2019 + MaxDurationYears)) \X {1, 2, 7, 12} \X {1, 5, 20, 31} :
        dt[3] <= DaysInMonth(dt[1], dt[2])}

InitDuration ==
    /\ pc = "calculate_duration"
    /\ args \in [start_date : DurationDates \cup {NoneDate},
                 end_date : DurationDates \cup {NoneDate}]
    /\ now \in NowValues
    /\ text = None
    /\ cleaned_text = None
    /\ recleaned_text = None
    /\ sections = None
    /\ raw_skills = None
    /\ skills = None
    /\ experience = None
    /\ education = None
    /\ parsed_data = None
    /\ quality_assessment = None
    /\ raised = None
    /\ returned = None
    /\ upload_dir = None
    /\ response = None
    /\ db = None
    /\ self = ResumeParser__init__
    /\ calls = None

CalculateDuration ==
    /\ pc = "calculate_duration"
    /\ returned' = _calculate_duration(args.start_date, args.end_date, now)
    /\ pc' = "done"
    /\ UNCHANGED <<text, cleaned_text, recleaned_text, sections, raw_skills,
                   skills, experience, education, parsed_data,
                   quality_assessment, raised, now, args,
                   calls,
                   self,
                   db,
                   response,
                   upload_dir>>

NextDuration == CalculateDuration

SpecDuration == InitDuration /\ [][NextDuration]_vars

\* the end the duration is measured to
DurationEnd == IF args.end_date = NoneDate THEN now ELSE args.end_date

\* C12: _calculate_duration returns None exactly when start_date is missing;
\* otherwise it measures to end_date, or to the current time when end_date
\* is missing, and for dates on the same day of the month the result is
\* 12*(end.year - start.year) + (end.month - start.month).
C12_CalendarMonthDelta ==
    pc = "done" =>
        /\ returned = <<>> <=> args.start_date = NoneDate
        /\ (args.start_date # NoneDate
            /\ DurationEnd[3] = args.start_date[3]) =>
               returned = <<12 * (DurationEnd[1] - args.start_date[1])
                            + (DurationEnd[2] - args.start_date[2])>>
        /\ (args.start_date # NoneDate /\ args.end_date = NoneDate) =>
               /\ ~DateLess(now, AddMonths(args.start_date, returned[1]))
               /\ DateLess(now, AddMonths(args.start_date, returned[1] + 1))

\* 2020-01-01 to 2021-07-01 gave 18
C12_Witness ==
    /\ pc = "done"
    /\ args.start_date = <<2020, 1, 1>>
    /\ args.end_date = <<2021, 7, 1>>
    /\ returned = <<18>>

\* the blocks of a text that hold an institution or a degree, in order
RECURSIVE BlocksWithNameOrDegree(_)
BlocksWithNameOrDegree(blocks) ==
    IF blocks = <<>> THEN <<>>
    ELSE (IF _extract_institution_name(Head(blocks)) # NoneText
             \/ _extract_degree_info(Head(blocks)).degree # None
          THEN <<Head(blocks)>> ELSE <<>>)
         \o BlocksWithNameOrDegree(Tail(blocks))

\* the block gives GPA numbers, all of them above 4.0
GpaOutOfRange(t) ==
    /\ \E i \in DOMAIN t : t[i] \in DecimalTokens
    /\ \A i \in DOMAIN t : t[i] \in DecimalTokens => DecimalTenths(t[i]) > 40

\* C13: the gpa of every education entry is None or a value in [0.0, 4.0];
\* a block whose GPA value is out of range gets gpa = None, and its entry is
\* there with the institution and the degree of the block.
C13_GpaInRange ==
    pc = "done" =>
        LET blocks == BlocksWithNameOrDegree(_identify_education_sections(text))
        IN  /\ Len(education) = Len(blocks)
            /\ \A i \in DOMAIN education :
                   /\ education[i].gpa = <<>>
                      \/ (0 <= education[i].gpa[1] /\ education[i].gpa[1] <= 40)
                   /\ GpaOutOfRange(blocks[i]) => education[i].gpa = <<>>
                   /\ education[i].degree =
                          _extract_degree_info(blocks[i]).degree
                   /\ education[i].institution_name =
                          _extract_institution_name(blocks[i])

\* an entry with a degree whose block says "GPA: 5.0" has no gpa
C13_Witness ==
    /\ pc = "done"
    /\ text = <<"Education", "\n", "Bachelor", "\n", "GPA", ":", " ", "5.0">>
    /\ Len(education) = 1
    /\ education[1].degree = "Bachelor"
    /\ education[1].gpa = <<>>

(***************************************************************************)
(* Specification of QualityAssessor._calculate_grade: two scores, given in *)
(* hundredths, are graded                                                  *)
(***************************************************************************)
MaxScoreHundredths == 100

InitGrade ==
    /\ pc = "calculate_grade"
    /\ args \in [score : 0..MaxScoreHundredths, higher : 0..MaxScoreHundredths]
    /\ text = None
    /\ cleaned_text = None
    /\ recleaned_text = None
    /\ sections = None
    /\ raw_skills = None
    /\ skills = None
    /\ experience = None
    /\ education = None
    /\ parsed_data = None
    /\ quality_assessment = None
    /\ raised = None
    /\ returned = None
    /\ upload_dir = None
    /\ response = None
    /\ db = None
    /\ self = ResumeParser__init__
    /\ calls = None
    /\ now = None

CalculateGrade ==
    /\ pc = "calculate_grade"
    /\ returned' =
           [score |-> _calculate_grade(Hundredths(args.score), "above"),
            higher |-> _calculate_grade(Hundredths(args.higher), "above")]
    /\ pc' = "done"
    /\ UNCHANGED <<text, cleaned_text, recleaned_text, sections, raw_skills,
                   skills, experience, education, parsed_data,
                   quality_assessment, raised, now, args,
                   calls,
                   self,
                   db,
                   response,
                   upload_dir>>

NextGrade == CalculateGrade

SpecGrade == InitGrade /\ [][NextGrade]_vars

\* the grades from the lowest to the highest, each with the least score in
\* hundredths that gets it
GradeSteps ==
    << <<0, "D">>, <<50, "C-">>, <<55, "C">>, <<60, "C+">>, <<65, "B-">>,
       <<70, "B">>, <<75, "B+">>, <<80, "A-">>, <<85, "A">>, <<90, "A+">> >>

\* the position in GradeSteps of the step a score in hundredths falls on
StepOf(h) ==
    CHOOSE k \in DOMAIN GradeSteps :
        /\ GradeSteps[k][1] <= h
        /\ k = Len(GradeSteps) \/ h < GradeSteps[k + 1][1]

GradeRank(grade) == CHOOSE k \in DOMAIN GradeSteps : GradeSteps[k][2] = grade

\* C14: _calculate_grade is the fixed step function of the score (>= 0.90
\* "A+", >= 0.85 "A", ..., >= 0.50 "C-", otherwise "D"); every score gets a
\* grade and a higher score never gets a lower grade.
C14_GradeStepFunction ==
    pc = "done" =>
        /\ returned.score = GradeSteps[StepOf(args.score)][2]
        /\ args.score <= args.higher =>
               GradeRank(returned.score) <= GradeRank(returned.higher)

\* 0.89 was graded "A" and 0.90 "A+"
C14_Witness ==
    /\ pc = "done"
    /\ args.score = 89
    /\ args.higher = 90
    /\ returned.score = "A"
    /\ returned.higher = "A+"

\* the names of the five component scores
Criteria ==
    {"completeness", "structure", "content_quality", "ats_compatibility",
     "professionalism"}

\* 0.25*completeness + 0.20*structure + 0.25*content_quality
\* + 0.15*ats_compatibility + 0.15*professionalism, times 100
WeightedSum(scores) ==
    25 * scores.completeness + 20 * scores.structure
    + 25 * scores.content_quality + 15 * scores.ats_compatibility
    + 15 * scores.professionalism

Distance(a, b) == IF a >= b THEN a - b ELSE b - a

\* C15: for every profile each of the five component scores and the
\* overall score lie in [0,1], and the overall score is 0.25*completeness
\* + 0.20*structure + 0.25*content_quality + 0.15*ats_compatibility
\* + 0.15*professionalism; the scores reported with two decimals lie in
\* [0,1] too and agree with that sum up to their rounding.
C15_WeightedOverall ==
    pc = "done" =>
        /\ \A c \in Criteria :
               /\ 0 <= returned[c] /\ returned[c] <= Unit
               /\ 0 <= quality_assessment.scores[c]
               /\ quality_assessment.scores[c] <= 100
        /\ 0 <= returned.overall_score /\ returned.overall_score <= Unit
        /\ 100 * returned.overall_score = WeightedSum(returned)
        /\ 0 <= quality_assessment.overall_score
        /\ quality_assessment.overall_score <= 100
        /\ Distance(100 * quality_assessment.overall_score,
                    WeightedSum(quality_assessment.scores)) <= 100

\* a profile whose five scores differ pairwise was assessed
C15_Witness ==
    /\ pc = "done"
    /\ returned.overall_score > 0
    /\ \A c, e \in Criteria : c # e => returned[c] # returned[e]

(***************************************************************************)
(* Specification of the two rescans, _identify_experience_sections and     *)
(* _identify_education_sections, over bounded texts                        *)
(***************************************************************************)
MaxRescanLines == 4

RescanLineShapes ==
    { <<>>, <<"a">>, <<"Developer">>, <<"Experience">>, <<"Education">>,
      <<"Skills">> }

InitRescan ==
    /\ pc = "rescan"
    /\ text \in {JoinLines(ls) :
                     ls \in SeqsUpTo(RescanLineShapes, MaxRescanLines)}
    /\ cleaned_text = None
    /\ recleaned_text = None
    /\ sections = None
    /\ raw_skills = None
    /\ skills = None
    /\ experience = None
    /\ education = None
    /\ parsed_data = None
    /\ quality_assessment = None
    /\ raised = None
    /\ returned = None
    /\ upload_dir = None
    /\ response = None
    /\ db = None
    /\ self = ResumeParser__init__
    /\ calls = None
    /\ now = None
    /\ args = None

IdentifyBlocks ==
    /\ pc = "rescan"
    /\ returned' = [experience |-> _identify_experience_sections(text),
                    education |-> _identify_education_sections(text)]
    /\ pc' = "done"
    /\ UNCHANGED <<text, cleaned_text, recleaned_text, sections, raw_skills,
                   skills, experience, education, parsed_data,
                   quality_assessment, raised, now, args,
                   calls,
                   self,
                   db,
                   response,
                   upload_dir>>

NextRescan == IdentifyBlocks

SpecRescan == InitRescan /\ [][NextRescan]_vars

\* the contract of the segmenter on the blocks of one rescan: no line of a
\* block is a header line, a boundary line or a blank line
FollowsScanContract(blocks, headers, boundaries) ==
    \A i \in DOMAIN blocks :
        LET lines == SplitLines(blocks[i])
        IN  \A k \in DOMAIN lines :
                /\ ~Search(headers, lines[k])
                /\ ~Search(boundaries, lines[k])
                /\ lines[k] # <<>>

\* C16: the experience and the education rescan follow the line-scanning
\* contract of the segmenter: the header line that opens a block is not in
\* the block, blank lines are dropped from it, and a header or boundary line
\* closes it.
C16_RescanContract ==
    pc = "done" =>
        /\ FollowsScanContract(returned.experience, experience_headers,
                               experience_major_sections)
        /\ FollowsScanContract(returned.education, education_headers,
                               education_major_sections)

(***************************************************************************)
(* TextExtractor.extract_text and ResumeParser.parse_resume on a file.     *)
(* A file is a record: whether the path exists, its suffix, the units of   *)
(* its content (the pages of a PDF, the paragraphs of a DOCX, the pieces   *)
(* of a text file), for every extraction strategy of its format whether    *)
(* the library call returns or raises, and the two import flags.           *)
(* Confidences are in hundredths.                                          *)
(***************************************************************************)
FileNotFoundError == "FileNotFoundError"
ValueError == "ValueError"
ImportError == "ImportError"

\* TextExtractor.__init__
supported_formats(PDF_AVAILABLE, DOCX_AVAILABLE) ==
    {".txt"} \cup (IF PDF_AVAILABLE THEN {".pdf"} ELSE {})
             \cup (IF DOCX_AVAILABLE THEN {".docx"} ELSE {})

\* file_path.suffix.lower()
SuffixLower(suffix) ==
    CASE suffix = ".PDF" -> ".pdf"
      [] OTHER           -> suffix

\* '\n\n'.join(units)
RECURSIVE JoinParagraphs(_)
JoinParagraphs(units) ==
    IF units = <<>> THEN <<>>
    ELSE IF Len(units) = 1 THEN units[1]
    ELSE units[1] \o <<"\n", "\n">> \o JoinParagraphs(Tail(units))

\* the pages whose extract_text() is not empty
PagesWithText(units) == SelectSeq(units, LAMBDA u : u # <<>>)

\* the paragraphs with para.text.strip() not empty
ParagraphsWithText(units) == SelectSeq(units, LAMBDA u : Strip(u) # <<>>)

\* the order in which _extract_pdf_text tries the two libraries
PdfStrategies_SecondaryFirst == <<"PyPDF2", "pdfplumber">>

PdfStrategies == <<"pdfplumber", "PyPDF2">>

PdfConfidence(method) == IF method = "pdfplumber" THEN 90 ELSE 70

_extract_pdf_text(file) ==
    IF ~file.PDF_AVAILABLE
    THEN [raised |-> ImportError, value |-> None, calls |-> <<>>]
    ELSE LET first == PdfStrategies[1]
             second == PdfStrategies[2]
             data(method) ==
                 [raw_text |-> JoinParagraphs(PagesWithText(file.units)),
                  method |-> method,
                  confidence |-> <<PdfConfidence(method)>>]
         IN  IF file.outcome[first] = "ok"
             THEN [raised |-> None, value |-> data(first),
                   calls |-> <<first>>]
             ELSE IF file.outcome[second] = "ok"
             THEN [raised |-> None, value |-> data(second),
                   calls |-> <<first, second>>]
             ELSE [raised |-> file.outcome[second], value |-> None,
                   calls |-> <<first, second>>]

_extract_docx_text(file) ==
    IF ~file.DOCX_AVAILABLE
    THEN [raised |-> ImportError, value |-> None, calls |-> <<>>]
    ELSE IF file.outcome["python-docx"] = "ok"
    THEN [raised |-> None,
          value |-> [raw_text |->
                         JoinParagraphs(ParagraphsWithText(file.units)),
                     method |-> "python-docx",
                     confidence |-> <<95>>],
          calls |-> <<"python-docx">>]
    ELSE [raised |-> file.outcome["python-docx"], value |-> None,
          calls |-> <<"python-docx">>]

\* the dict of _extract_txt_text has the key 'confidence': 1.0
_extract_txt_text(file) ==
    IF file.outcome["plain_text"] = "ok"
    THEN [raised |-> None,
          value |-> [raw_text |-> Concat(file.units),
                     method |-> "plain_text",
                     confidence |-> <<100>>],
          calls |-> <<"plain_text">>]
    ELSE [raised |-> file.outcome["plain_text"], value |-> None,
          calls |-> <<"plain_text">>]

\* text_data.get('confidence', 1.0)
GetConfidence(text_data) ==
    IF text_data.confidence = <<>> THEN 100 ELSE text_data.confidence[1]

\* the order of the two precondition checks of extract_text
PathExists_Skipped(file) == TRUE

PathExists(file) == file.exists

extract_text(file) ==
    IF ~PathExists(file)
    THEN [raised |-> FileNotFoundError, value |-> None, calls |-> <<>>]
    ELSE LET file_ext == SuffixLower(file.suffix)
         IN  IF file_ext \notin supported_formats(file.PDF_AVAILABLE,
                                                  file.DOCX_AVAILABLE)
             THEN [raised |-> ValueError, value |-> None, calls |-> <<>>]
             ELSE LET text_data ==
                          CASE file_ext = ".pdf"  -> _extract_pdf_text(file)
                            [] file_ext = ".docx" -> _extract_docx_text(file)
                            [] file_ext = ".txt"  -> _extract_txt_text(file)
                  IN  IF text_data.raised # None
                      THEN text_data
                      ELSE [raised |-> None,
                            value |->
                              [raw_text |-> text_data.value.raw_text,
                               cleaned_text |->
                                   _clean_text(text_data.value.raw_text),
                               extraction_method |-> text_data.value.method,
                               extraction_confidence |->
                                   GetConfidence(text_data.value)],
                            calls |-> text_data.calls]

MaxUnits == 2

UnitShapes == { <<>>, <<" ">>, <<"a">>, <<"Experience">> }

Suffixes == {".pdf", ".PDF", ".docx", ".txt", ".doc"}

\* the library calls that read a file of a suffix
StrategiesOf(suffix) ==
    CASE SuffixLower(suffix) = ".pdf"  -> {"pdfplumber", "PyPDF2"}
      [] SuffixLower(suffix) = ".docx" -> {"python-docx"}
      [] SuffixLower(suffix) = ".txt"  -> {"plain_text"}
      [] OTHER                         -> {}

\* what a library call does on a file: it returns, or it raises its error
Outcomes == {"ok", "ExtractionError"}

Files ==
    UNION {[exists : BOOLEAN,
            suffix : {suffix},
            units : SeqsUpTo(UnitShapes, MaxUnits),
            outcome : [StrategiesOf(suffix) -> Outcomes],
            PDF_AVAILABLE : BOOLEAN,
            DOCX_AVAILABLE : BOOLEAN] : suffix \in Suffixes}

InitFile ==
    /\ pc = "extract_text"
    /\ args \in Files
    /\ now = <<2026, 11, 5>>
    /\ text = None
    /\ cleaned_text = None
    /\ recleaned_text = None
    /\ sections = None
    /\ raw_skills = None
    /\ skills = None
    /\ experience = None
    /\ education = None
    /\ parsed_data = None
    /\ quality_assessment = None
    /\ raised = None
    /\ returned = None
    /\ upload_dir = None
    /\ response = None
    /\ db = None
    /\ self = ResumeParser__init__
    /\ calls = <<>>

\* step 1 of parse_resume; an exception leaves parse_resume (it is logged
\* and raised again)
ParseExtractText ==
    /\ pc = "extract_text"
    /\ LET result == extract_text(args)
       IN  /\ raised' = result.raised
           /\ returned' = result.value
           /\ calls' = result.calls
           /\ cleaned_text' = IF result.raised = None
                              THEN result.value.cleaned_text
                              ELSE cleaned_text
           /\ pc' = IF result.raised = None THEN "identify_sections"
                    ELSE "raised"
    /\ UNCHANGED <<text, recleaned_text, sections, raw_skills, skills,
                   experience, education, parsed_data, quality_assessment,
                   now, args,
                   self,
                   db,
                   response,
                   upload_dir>>

NextFile ==
    \/ ParseExtractText
    \/ ParseIdentifySections
    \/ ParseExtractSkills
    \/ ParseExtractExperience
    \/ ParseExtractEducation
    \/ ParseAssessQuality
    \/ ParseCompileResults

SpecFile == InitFile /\ [][NextFile]_vars

\* the file cannot be read: its path does not exist, or its extension is
\* outside the supported set
Unreadable(file) ==
    \/ ~file.exists
    \/ SuffixLower(file.suffix) \notin
           supported_formats(file.PDF_AVAILABLE, file.DOCX_AVAILABLE)

\* C17: an input that cannot be read aborts parse_resume with no partial
\* result: FileNotFoundError for a path that does not exist, whatever its
\* extension, the unsupported-format error for an existing path with an
\* extension outside the supported set, no extraction strategy is called in
\* either case, and no later step of parse_resume runs.
C17_UnreadableAborts ==
    (pc # "extract_text" /\ Unreadable(args)) =>
        /\ pc = "raised"
        /\ raised = (IF ~args.exists THEN FileNotFoundError ELSE ValueError)
        /\ calls = <<>>
        /\ returned = None
        /\ cleaned_text = None
        /\ sections = None
        /\ skills = None
        /\ quality_assessment = None

C17_Witness ==
    /\ pc = "raised"
    /\ ~args.exists
    /\ args.suffix = ".doc"
    /\ raised = FileNotFoundError

\* extract_text reached the extraction strategies of the file
Dispatched(file) == pc # "extract_text" /\ ~Unreadable(file)

\* the document has no text to extract: it has no unit, or only empty ones
ZeroText(file) == \A i \in DOMAIN file.units : file.units[i] = <<>>

\* C18: for a PDF the primary strategy (pdfplumber) is tried first; when it
\* succeeds the confidence is 0.9 and the secondary (PyPDF2) is not called;
\* the secondary is called only after the primary raised, and its result has
\* confidence 0.7; when both raise the error leaves extract_text.  Plain
\* text has confidence 1.0 and DOCX 0.95, and a document without extractable
\* text gives raw_text = '' and cleaned_text = '', not an error.
C18_ExtractionStrategies ==
    Dispatched(args) =>
        LET file_ext == SuffixLower(args.suffix)
            ok(method) == args.outcome[method] = "ok"
        IN  /\ file_ext = ".pdf" =>
                /\ calls[1] = "pdfplumber"
                /\ ok("pdfplumber") =>
                       /\ calls = <<"pdfplumber">>
                       /\ raised = None
                       /\ returned.extraction_confidence = 90
                /\ ~ok("pdfplumber") => calls = <<"pdfplumber", "PyPDF2">>
                /\ (~ok("pdfplumber") /\ ok("PyPDF2")) =>
                       /\ raised = None
                       /\ returned.extraction_confidence = 70
                /\ (~ok("pdfplumber") /\ ~ok("PyPDF2")) =>
                       /\ pc = "raised"
                       /\ raised = args.outcome["PyPDF2"]
            /\ (file_ext = ".txt" /\ raised = None) =>
                   returned.extraction_confidence = 100
            /\ (file_ext = ".docx" /\ raised = None) =>
                   returned.extraction_confidence = 95
            /\ (ZeroText(args) /\ \A m \in DOMAIN args.outcome : ok(m)) =>
                   /\ raised = None
                   /\ returned.raw_text = <<>>
                   /\ returned.cleaned_text = <<>>

C18_Witness ==
    /\ pc = "done"
    /\ SuffixLower(args.suffix) = ".pdf"
    /\ args.outcome["pdfplumber"] # "ok"
    /\ calls = <<"pdfplumber", "PyPDF2">>
    /\ returned.extraction_confidence = 70
    /\ args.units = <<<<>>, <<>>>>
    /\ returned.raw_text = <<>>

(***************************************************************************)
(* Two invocations of the entry points on the one ResumeParser instance of *)
(* the router, interleaved between the calls to the components.  pc, args  *)
(* and returned are functions of the invocation: its position, its entry   *)
(* point with the argument, and its local variables.                       *)
(***************************************************************************)
Invocations == {1, 2}

MaxConcurrentLines == 1

ConcurrentLineShapes ==
    { <<"Python">>, <<"React">>, <<"Developer">> }

ConcurrentTexts ==
    {JoinLines(ls) :
         ls \in SeqsUpTo(ConcurrentLineShapes, MaxConcurrentLines)}

ConcurrentProfiles ==
    [cleaned_text : {<<"a">>}, sections : {<<>>}, skills : QualitySkills,
     experience : {<<>>}, education : {<<>>}]

ConcurrentFiles ==
    {file \in Files :
        /\ file.suffix = ".txt"
        /\ file.units \in {<<>>, <<<<"Experience">>>>}
        /\ file.outcome["plain_text"] = "ok"
        /\ file.PDF_AVAILABLE /\ file.DOCX_AVAILABLE}

ConcurrentCalls ==
    [entry : {"parse_resume"}, input : ConcurrentFiles]
    \cup [entry : {"parse_resume_text", "extract_skills_only"},
          input : ConcurrentTexts]
    \cup [entry : {"assess_quality_only"}, input : ConcurrentProfiles]

\* the first statement of the try block of each entry point
FirstStage(entry) ==
    CASE entry = "parse_resume"        -> "extract_text"
      [] entry = "parse_resume_text"   -> "clean_text"
      [] entry = "extract_skills_only" -> "clean_text"
      [] entry = "assess_quality_only" -> "assess_quality"

NoLocals ==
    [cleaned_text |-> None, sections |-> None, skills |-> None,
     experience |-> None, education |-> None, quality_assessment |-> None,
     raised |-> None]

\* the BERT pipeline of the concurrent invocations: it finds the two words
LoadedBert ==
    [outcome |-> "ok", scores |-> [w \in {"Python", "React"} |-> 95]]

\* a plausible slip: extract_skills keeps what it found as the vocabulary
WrittenByExtractSkills_Cached(s, found) ==
    [s EXCEPT !.skill_categories =
        [category \in SkillCategories |->
            {found[category][k].skill_name : k \in DOMAIN found[category]}]]

\* extract_skills builds its results in a dict of its own and only reads
\* self.skill_categories: the attributes are what they were
WrittenByExtractSkills(s, found) == s

\* one statement of an entry point: the positions and local variables it
\* can lead to, reading the attributes of the instance
Stage(call, position, locals) ==
    CASE position = "extract_text" ->
           LET result == extract_text(call.input)
           IN  {[pc |-> IF result.raised = None THEN "identify_sections"
                        ELSE "raised",
                 locals |-> [locals EXCEPT
                               !.raised = result.raised,
                               !.cleaned_text =
                                   IF result.raised = None
                                   THEN result.value.cleaned_text ELSE @]]}
      [] position = "clean_text" ->
           {[pc |-> IF call.entry = "extract_skills_only"
                    THEN "extract_skills" ELSE "identify_sections",
             locals |-> [locals EXCEPT
                           !.cleaned_text = _clean_text(call.input)]]}
      [] position = "identify_sections" ->
           {[pc |-> "extract_skills",
             locals |-> [locals EXCEPT
                           !.sections =
                               identify_sections(locals.cleaned_text)]]}
      [] position = "extract_skills" ->
           LET result == SkillExtractor_extract_skills(locals.cleaned_text)
           IN  {[pc |-> IF result.raised # None THEN "raised"
                        ELSE IF call.entry = "extract_skills_only"
                        THEN "done" ELSE "extract_experience",
                 locals |-> [locals EXCEPT !.raised = result.raised,
                                           !.skills = result.value]]}
      [] position = "extract_experience" ->
           LET result == extract_experience(locals.cleaned_text, now)
           IN  {[pc |-> IF result.raised = None THEN "extract_education"
                        ELSE "raised",
                 locals |-> [locals EXCEPT !.raised = result.raised,
                                           !.experience = result.value]]}
      [] position = "extract_education" ->
           {[pc |-> "assess_quality",
             locals |-> [locals EXCEPT
                           !.education =
                               extract_education(locals.cleaned_text)]]}
      [] position = "assess_quality" ->
           LET data == IF call.entry = "assess_quality_only"
                       THEN call.input
                       ELSE [cleaned_text |-> locals.cleaned_text,
                             sections |-> locals.sections,
                             skills |-> locals.skills,
                             experience |-> locals.experience,
                             education |-> locals.education]
           IN  {[pc |-> IF result.raised = None THEN "done" ELSE "raised",
                 locals |-> [locals EXCEPT
                               !.raised = result.raised,
                               !.quality_assessment = result.value]] :
                    result \in assess_resume_quality(data, now)}

InitConcurrent ==
    /\ self \in {ResumeParser__init__,
                 [ResumeParser__init__ EXCEPT !.bert_ner = <<LoadedBert>>]}
    /\ args \in [Invocations -> ConcurrentCalls]
    /\ pc = [i \in Invocations |-> FirstStage(args[i].entry)]
    /\ returned = [i \in Invocations |-> NoLocals]
    /\ now = <<2026, 11, 5>>
    /\ text = None
    /\ cleaned_text = None
    /\ recleaned_text = None
    /\ sections = None
    /\ raw_skills = None
    /\ skills = None
    /\ experience = None
    /\ education = None
    /\ parsed_data = None
    /\ quality_assessment = None
    /\ raised = None
    /\ calls = None
    /\ db = None
    /\ response = None
    /\ upload_dir = None

\* invocation i runs its next statement
RunStage(i) ==
    /\ pc[i] \notin {"done", "raised"}
    /\ \E next \in Stage(args[i], pc[i], returned[i]) :
           /\ pc' = [pc EXCEPT ![i] = next.pc]
           /\ returned' = [returned EXCEPT ![i] = next.locals]
           /\ self' = IF pc[i] = "extract_skills"
                      THEN WrittenByExtractSkills(self, next.locals.skills)
                      ELSE self
    /\ UNCHANGED <<text, cleaned_text, recleaned_text, sections, raw_skills,
                   skills, experience, education, parsed_data,
                   quality_assessment, raised, now, args, calls,
                   db,
                   response,
                   upload_dir>>

NextConcurrent == \E i \in Invocations : RunStage(i)

SpecConcurrent == InitConcurrent /\ [][NextConcurrent]_vars

\* what an invocation can return when it runs from a position to its end
\* with no other invocation in between
RECURSIVE RunAlone(_, _, _)
RunAlone(call, position, locals) ==
    IF position \in {"done", "raised"}
    THEN {[pc |-> position, locals |-> locals]}
    ELSE UNION {RunAlone(call, next.pc, next.locals) :
                    next \in Stage(call, position, locals)}

\* C19: concurrent invocations on the shared ResumeParser instance do not
\* interfere: no entry point writes the attributes another invocation reads
\* (skill_categories, job_titles, date_patterns, degree_patterns,
\* criteria_weights), and under every interleaving each invocation ends as
\* it ends when it runs alone.
C19_NoInterference ==
    /\ [self EXCEPT !.bert_ner = <<>>] = ResumeParser__init__
    /\ \A i \in Invocations :
           pc[i] \in {"done", "raised"} =>
               [pc |-> pc[i], locals |-> returned[i]] \in
                   RunAlone(args[i], FirstStage(args[i].entry), NoLocals)

\* both invocations found skills, and the second one ran its statements
\* between two statements of the first
C19_Witness ==
    /\ pc[1] = "extract_experience"
    /\ pc[2] = "done"
    /\ args[1].entry = "parse_resume_text"
    /\ args[2].entry = "extract_skills_only"
    /\ self.bert_ner # <<>>
    /\ returned[1].skills["programming_languages"] # <<>>
    /\ returned[2].skills["frameworks"] # <<>>

(***************************************************************************)
(* Specification of SkillExtractor.extract_skills over bounded texts, with *)
(* and without a loaded spaCy model and BERT pipeline                      *)
(***************************************************************************)
MaxSkillLines == 2

SkillLineShapes ==
    { <<"Python">>, <<"python">>, <<"Developer">>,
      <<"learning", " ", "React">>, <<"Experience", " ", "Python">> }

\* what the loaded spaCy model does on the text: it returns the doc, or the
\* inference fails
NlpModels == [outcome : {"ok", "InferenceError"}]

\* what the loaded BERT pipeline does on a chunk: it scores the words it
\* knows, or the inference fails
BertModels ==
    [outcome : {"ok", "InferenceError"},
     scores : [{"Python", "Developer"} -> {70, 75, 95}]]

InitSkills ==
    /\ pc = "extract_skills"
    /\ text \in {JoinLines(ls) :
                     ls \in SeqsUpTo(SkillLineShapes, MaxSkillLines)}
    /\ self \in {[ResumeParser__init__ EXCEPT !.nlp = nlp, !.bert_ner = bert] :
                     nlp \in {<<>>} \cup {<<m>> : m \in NlpModels},
                     bert \in {<<>>} \cup {<<m>> : m \in BertModels}}
    /\ cleaned_text = None
    /\ recleaned_text = None
    /\ sections = None
    /\ raw_skills = None
    /\ skills = None
    /\ experience = None
    /\ education = None
    /\ parsed_data = None
    /\ quality_assessment = None
    /\ raised = None
    /\ returned = None
    /\ upload_dir = None
    /\ response = None
    /\ db = None
    /\ now = None
    /\ args = None
    /\ calls = None

ExtractSkills ==
    /\ pc = "extract_skills"
    /\ LET result == SkillExtractor_extract_skills(text)
       IN  /\ raised' = result.raised
           /\ skills' = result.value
           /\ pc' = IF result.raised = None THEN "done" ELSE "raised"
    /\ UNCHANGED <<text, cleaned_text, recleaned_text, sections, raw_skills,
                   experience, education, parsed_data, quality_assessment,
                   now, returned, args, calls, self,
                   db,
                   response,
                   upload_dir>>

NextSkills == ExtractSkills

SpecSkills == InitSkills /\ [][NextSkills]_vars

\* the mention is represented in the list: an entry of the same name (up to
\* case) and category has at least its confidence
Represented(mention, entries) ==
    \E k \in DOMAIN entries :
        /\ Lower(entries[k].skill_name) = Lower(mention.skill_name)
        /\ entries[k].category = mention.category
        /\ entries[k].confidence >= mention.confidence

\* the BERT pipeline is absent, or it fails on the text
BertAbsentOrFailing == self.bert_ner = <<>> \/ self.bert_ner[1].outcome # "ok"

\* C20: extract_skills runs every available method and merges their
\* mentions before it deduplicates: every mention of the pattern method is in
\* the result with its category and a confidence of at least 0.8, whether or
\* not the spaCy and BERT methods are available; a BERT method that is absent
\* or fails during inference adds nothing and raises nothing; the result has
\* all eight category keys.
C20_MethodsMerged ==
    /\ (self.nlp = <<>> \/ self.nlp[1].outcome = "ok") => pc # "raised"
    /\ pc = "done" =>
        /\ DOMAIN skills = SkillCategories
        /\ Cardinality(SkillCategories) = 8
        /\ \A category \in SkillCategories :
            /\ \A k \in DOMAIN PatternMentions(category, text, 1) :
                   /\ PatternMentions(category, text, 1)[k].confidence >= 80
                   /\ Represented(PatternMentions(category, text, 1)[k],
                                  skills[category])
            /\ self.nlp # <<>> =>
                   \A k \in DOMAIN SpacyMentions(category, text, 1) :
                       Represented(SpacyMentions(category, text, 1)[k],
                                   skills[category])
            /\ ~BertAbsentOrFailing =>
                   \A k \in DOMAIN BertMentions(category, text, 1) :
                       Represented(BertMentions(category, text, 1)[k],
                                   skills[category])
            /\ BertAbsentOrFailing =>
                   \A k \in DOMAIN skills[category] :
                       skills[category][k].extraction_method # "bert"
            /\ \A j, k \in DOMAIN skills[category] :
                   Lower(skills[category][j].skill_name) =
                       Lower(skills[category][k].skill_name) => j = k

\* the three methods found the same skill, spaCy with the lowest confidence
\* and the pattern method with 0.8, and one record of it is returned
C20_Witness ==
    /\ pc = "done"
    /\ text = <<"learning", " ", "React", "\n", "Python">>
    /\ self.nlp # <<>>
    /\ ~BertAbsentOrFailing
    /\ self.bert_ner[1].scores["Python"] = 95
    /\ Len(skills["programming_languages"]) = 1
    /\ skills["programming_languages"][1].confidence = 95
    /\ skills["frameworks"][1].confidence = 80

\* C21: the output of _clean_text is normalized: for every input it has no
\* run of two or more whitespace characters, no leading or trailing
\* whitespace, and only allow-listed characters.
C21_CleanNormalized ==
    pc # "clean" =>
        /\ \A i \in 1..(Len(cleaned_text) - 1) :
               ~(IsSpace(cleaned_text[i]) /\ IsSpace(cleaned_text[i + 1]))
        /\ cleaned_text # <<>> =>
               /\ ~IsSpace(cleaned_text[1])
               /\ ~IsSpace(cleaned_text[Len(cleaned_text)])
        /\ \A i \in DOMAIN cleaned_text : cleaned_text[i] \notin Disallowed

(***************************************************************************)
(* parse_resume_text on resumes of the shape of test_text_parsing: an      *)
(* experience header with one company/title/date block, an education       *)
(* header with one degree block, and a sentence with Python and React      *)
(***************************************************************************)
MaxResumeFiller == 1

ResumeExperienceBlocks ==
    { << <<"Acme", " ", "Inc">>, <<"Developer">>, <<"June", " ", "2019">> >>,
      << <<"Developer">>, <<"Acme", " ", "Inc">>,
         <<"2019", " ", "-", " ", "2021">> >>,
      << <<"Acme", " ", "Inc", " ", "Developer", " ", "2019", " ", "-", " ",
           "Present">> >> }

ResumeEducationBlocks ==
    { << <<"Bachelor", " ", "Computer Science">> >>,
      << <<"State", " ", "University">>, <<"Bachelor">>, <<"2019">> >>,
      << <<"Master", " ", "Economics">>, <<"State", " ", "University">> >>,
      << <<"Master">> >> }

ResumeSentences ==
    { <<"Python", " ", "and", " ", "React">>,
      <<"a", " ", "React", " ", "and", " ", "Python">> }

ResumeFillerLines == { <<"a">>, <<"developed, managed and led">> }

ResumeTexts ==
    {JoinLines(<< <<"Experience">> >> \o e \o << <<"Education">> >> \o d
               \o f \o <<sentence>>) :
         e \in ResumeExperienceBlocks, d \in ResumeEducationBlocks,
         f \in SeqsUpTo(ResumeFillerLines, MaxResumeFiller),
         sentence \in ResumeSentences}

InitResume ==
    /\ pc = "clean_text"
    /\ text \in ResumeTexts
    /\ now = <<2026, 11, 5>>
    /\ cleaned_text = None
    /\ recleaned_text = None
    /\ sections = None
    /\ raw_skills = None
    /\ skills = None
    /\ experience = None
    /\ education = None
    /\ parsed_data = None
    /\ quality_assessment = None
    /\ raised = None
    /\ returned = None
    /\ upload_dir = None
    /\ response = None
    /\ db = None
    /\ self = ResumeParser__init__
    /\ calls = None
    /\ args = None

SpecResume == InitResume /\ [][NextPipeline]_vars

\* C22: parse_resume_text on a multi-line text with an experience header
\* followed by one company/title/date block, an education header followed
\* by one degree block, and a sentence that mentions Python and React
\* returns at least one experience entry, at least one education entry, at
\* least one mention in programming_languages and one in frameworks, and an
\* overall_score above 0.
C22_ResumeParsed ==
    /\ pc # "raised"
    /\ pc = "done" =>
           /\ Len(experience) >= 1
           /\ Len(education) >= 1
           /\ Len(skills["programming_languages"]) >= 1
           /\ Len(skills["frameworks"]) >= 1
           /\ quality_assessment.overall_score > 0

\* ---------------------------------------------------------------------
\* Upload, background parsing and retrieval (api/routers/resumes.py)
\* ---------------------------------------------------------------------

TypeError == "TypeError"
OperationalError == "OperationalError"
StaleDataError == "StaleDataError"

\* settings.allowed_file_types
allowed_file_types == {".pdf", ".docx", ".txt"}

validate_file_type(file) == SuffixLower(file.suffix) \in allowed_file_types

validate_file_size(file) == ~file.too_large

\* the stat of the stored file: created and modified are datetime objects
get_file_info(file, today) ==
    [filename |-> file.suffix,
     size |-> Len(file.units),
     created |-> today,
     modified |-> today]

\* a date field holds a datetime object unless it is None
IsDatetime(value) == value # NoneDate

\* the values of a results dict that json has no encoding for
HoldsDatetime(results) ==
    \/ IsDatetime(results.file_info.created)
    \/ IsDatetime(results.file_info.modified)
    \/ \E i \in DOMAIN results.experience :
           \/ IsDatetime(results.experience[i].start_date)
           \/ IsDatetime(results.experience[i].end_date)
    \/ \E i \in DOMAIN results.education :
           \/ IsDatetime(results.education[i].start_date)
           \/ IsDatetime(results.education[i].end_date)

\* json.dumps with the default encoder: a datetime anywhere in the object
\* raises TypeError, anything else is encoded
json_dumps(results) ==
    IF HoldsDatetime(results)
    THEN [raised |-> TypeError, value |-> <<>>]
    ELSE [raised |-> None, value |-> <<[json |-> results]>>]

json_loads(document) == document.json

\* the columns of a Resume row that the handlers write
NewResume ==
    [parsing_status |-> "processing", parsed_content |-> <<>>,
     parsing_errors |-> <<>>]

\* the database calls of the handlers, each of which can fail
DbOperations == {"upload", "start", "store", "except"}

DbOutcomes == {"ok", OperationalError}

MaxUploadUnits == 1

UploadUnitShapes == { <<"a">>, <<"Experience">> }

UploadFiles ==
    UNION {[exists : BOOLEAN,
            suffix : {suffix},
            units : SeqsUpTo(UploadUnitShapes, MaxUploadUnits),
            outcome : [StrategiesOf(suffix) -> Outcomes],
            PDF_AVAILABLE : {TRUE},
            DOCX_AVAILABLE : {TRUE},
            too_large : BOOLEAN] : suffix \in {".txt", ".pdf", ".doc"}}

\* db.row is the committed row (no row: <<>>), db.resume_record the object
\* the task got from its query, db.results what parse_resume returned to
\* the task; response is <<>> until a request was answered
InitUpload ==
    /\ pc = "upload_resume"
    /\ args \in UploadFiles
    /\ db \in [row : {<<>>}, resume_record : {<<>>}, results : {<<>>},
               outcome : [DbOperations -> DbOutcomes]]
    /\ response = <<>>
    /\ now = <<2026, 11, 5>>
    /\ text = None
    /\ cleaned_text = None
    /\ recleaned_text = None
    /\ sections = None
    /\ raw_skills = None
    /\ skills = None
    /\ experience = None
    /\ education = None
    /\ parsed_data = None
    /\ quality_assessment = None
    /\ raised = None
    /\ returned = None
    /\ self = ResumeParser__init__
    /\ calls = <<>>
    /\ upload_dir = None

\* upload_resume: validation, the stored file, the new row and the task
UploadResume ==
    /\ pc = "upload_resume"
    /\ IF ~validate_file_type(args) \/ ~validate_file_size(args)
       THEN /\ response' = <<[status_code |-> 400]>>
            /\ pc' = "rejected"
            /\ db' = db
       ELSE IF db.outcome["upload"] # "ok"
       THEN /\ response' = <<[status_code |-> 500]>>
            /\ pc' = "rejected"
            /\ db' = db
       ELSE /\ response' = <<[status_code |-> 200, status |-> "processing"]>>
            /\ pc' = "background"
            /\ db' = [db EXCEPT !.row = <<NewResume>>]
    /\ UNCHANGED <<text, cleaned_text, recleaned_text, sections, raw_skills,
                   skills, experience, education, parsed_data,
                   quality_assessment, raised, now, returned, args, calls,
                   self, upload_dir>>

\* parse_resume_background up to the call of parse_resume
BackgroundStart ==
    /\ pc = "background"
    /\ IF db.outcome["start"] # "ok"
       THEN /\ raised' = OperationalError
            /\ pc' = "raised"
            /\ db' = db
       ELSE /\ raised' = raised
            /\ pc' = "extract_text"
            /\ db' = IF db.row = <<>>
                     THEN [db EXCEPT !.resume_record = <<>>]
                     ELSE LET record ==
                                  [db.row[1] EXCEPT
                                      !.parsing_status = "processing"]
                          IN  [db EXCEPT !.resume_record = <<record>>,
                                         !.row = <<record>>]
    /\ UNCHANGED <<text, cleaned_text, recleaned_text, sections, raw_skills,
                   skills, experience, education, parsed_data,
                   quality_assessment, now, returned, args, calls,
                   self, response, upload_dir>>

\* step 7 of parse_resume: the results dict, which the task binds
CompiledResults ==
    [file_info |-> get_file_info(args, now),
     extraction_metadata |->
         [extraction_method |-> returned.extraction_method,
          extraction_confidence |-> returned.extraction_confidence],
     sections |-> sections,
     skills |-> skills,
     experience |-> experience,
     education |-> education,
     quality_assessment |-> quality_assessment]

BackgroundParsed ==
    /\ pc = "compile_results"
    /\ pc' = "done"
    /\ db' = [db EXCEPT !.results = <<CompiledResults>>]
    /\ UNCHANGED <<text, cleaned_text, recleaned_text, sections, raw_skills,
                   skills, experience, education, parsed_data,
                   quality_assessment, raised, now, returned, args, calls,
                   self, response, upload_dir>>

\* db.commit() of the task: an UPDATE of a row that is gone is stale
Commit(database, operation) ==
    IF database.outcome[operation] # "ok" THEN OperationalError
    ELSE IF database.row = <<>> THEN StaleDataError
    ELSE None

\* the statements after parse_resume: json.dumps is evaluated before the
\* first attribute of the record is set
BackgroundStore ==
    /\ pc = "done"
    /\ LET dumped == json_dumps(db.results[1])
       IN  IF dumped.raised # None
           THEN /\ raised' = dumped.raised
                /\ pc' = "raised"
                /\ db' = db
           ELSE IF db.resume_record = <<>>
           THEN /\ raised' = "AttributeError"
                /\ pc' = "raised"
                /\ db' = db
           ELSE LET record ==
                        [db.resume_record[1] EXCEPT
                            !.parsed_content = dumped.value,
                            !.parsing_status = "completed"]
                    failure == Commit(db, "store")
                IN  IF failure # None
                    THEN /\ raised' = failure
                         /\ pc' = "raised"
                         /\ db' = [db EXCEPT !.resume_record = <<record>>]
                    ELSE /\ raised' = raised
                         /\ pc' = "finished"
                         /\ db' = [db EXCEPT !.resume_record = <<record>>,
                                             !.row = <<record>>]
    /\ UNCHANGED <<text, cleaned_text, recleaned_text, sections, raw_skills,
                   skills, experience, education, parsed_data,
                   quality_assessment, now, returned, args, calls,
                   self, response, upload_dir>>

\* "except Exception as e" of the task
CaughtByTask_ValueErrorOnly(exception) == exception = ValueError

CaughtByTask(exception) == TRUE

\* the handler: the record is read again and marked failed; what the inner
\* try raises is logged
BackgroundExcept ==
    /\ pc = "raised"
    /\ IF ~CaughtByTask(raised)
       THEN /\ pc' = "escaped"
            /\ db' = db
       ELSE /\ pc' = "finished"
            /\ db' = IF db.outcome["except"] # "ok" \/ db.row = <<>>
                     THEN db
                     ELSE LET record ==
                                  [db.row[1] EXCEPT
                                      !.parsing_status = "failed",
                                      !.parsing_errors = <<raised>>]
                          IN  [db EXCEPT !.resume_record = <<record>>,
                                         !.row = <<record>>]
    /\ UNCHANGED <<text, cleaned_text, recleaned_text, sections, raw_skills,
                   skills, experience, education, parsed_data,
                   quality_assessment, raised, now, returned, args, calls,
                   self, response, upload_dir>>

\* get_resume on the row it finds
get_resume(row) ==
    IF row = <<>> THEN [status_code |-> 404]
    ELSE IF row[1].parsing_status # "completed"
    THEN [status_code |-> 200, status |-> row[1].parsing_status]
    ELSE IF row[1].parsed_content # <<>>
    THEN [status_code |-> 200, status |-> "completed",
          data |-> json_loads(row[1].parsed_content[1])]
    ELSE [status_code |-> 500]

\* the positions at which the task is about to use the database, or has
\* returned: it does not look at the row while parse_resume runs, so what
\* happens to the row meanwhile is what happened just before "done"
BetweenDatabaseCalls == {"background", "done", "raised", "finished"}

\* a client asks for the resume once it has the id
GetResume ==
    /\ pc \in BetweenDatabaseCalls
    /\ response' = <<get_resume(db.row)>>
    /\ response' # response
    /\ UNCHANGED <<pc, text, cleaned_text, recleaned_text, sections,
                   raw_skills, skills, experience, education, parsed_data,
                   quality_assessment, raised, now, returned, args, calls,
                   self, db, upload_dir>>

\* another client of the database removes the row
RecordDisappears ==
    /\ pc \in BetweenDatabaseCalls
    /\ db.row # <<>>
    /\ db' = [db EXCEPT !.row = <<>>]
    /\ UNCHANGED <<pc, text, cleaned_text, recleaned_text, sections,
                   raw_skills, skills, experience, education, parsed_data,
                   quality_assessment, raised, now, returned, args, calls,
                   self, response, upload_dir>>

NextUpload ==
    \/ UploadResume
    \/ BackgroundStart
    \/ ParseExtractText
    \/ ParseIdentifySections
    \/ ParseExtractSkills
    \/ ParseExtractExperience
    \/ ParseExtractEducation
    \/ ParseAssessQuality
    \/ BackgroundParsed
    \/ BackgroundStore
    \/ BackgroundExcept
    \/ GetResume
    \/ RecordDisappears

SpecUpload == InitUpload /\ [][NextUpload]_vars

\* every database call of the handlers went through
DatabaseWorked == \A operation \in DbOperations : db.outcome[operation] = "ok"

\* C23: every profile parse_resume returns can be serialized, and after an
\* upload of a supported, readable file whose parse succeeded the task has
\* stored the serialized profile in parsed_content and the record is
\* 'completed', not 'failed' (the database working and the row in place).
C23_ParsedProfileStored ==
    /\ pc \notin {"upload_resume", "rejected"} /\ db.results # <<>> =>
           json_dumps(db.results[1]).raised = None
    /\ (/\ pc = "finished"
        /\ db.results # <<>>
        /\ db.row # <<>>
        /\ DatabaseWorked) =>
           /\ db.row[1].parsing_status = "completed"
           /\ db.row[1].parsed_content # <<>>

\* the statements of the background task
NextBackground ==
    \/ BackgroundStart
    \/ ParseExtractText
    \/ ParseIdentifySections
    \/ ParseExtractSkills
    \/ ParseExtractExperience
    \/ ParseExtractEducation
    \/ ParseAssessQuality
    \/ BackgroundParsed
    \/ BackgroundStore
    \/ BackgroundExcept

\* one step of the row and of the answers, as the lifecycle allows it
LifecycleStep ==
    /\ db.row = <<>> /\ db'.row # <<>> =>
           /\ pc = "upload_resume"
           /\ db'.row[1].parsing_status = "processing"
    /\ db.row # <<>> /\ db'.row # <<>> =>
           \/ db'.row[1].parsing_status = db.row[1].parsing_status
           \/ /\ db.row[1].parsing_status = "processing"
              /\ db'.row[1].parsing_status \in {"completed", "failed"}
    /\ pc' # "escaped"
    /\ response' # response /\ "data" \in DOMAIN response'[1] =>
           /\ db.row # <<>>
           /\ db.row[1].parsing_status = "completed"

\* the task has returned and its last database call went through
TaskSettled ==
    pc = "finished" /\ db.row # <<>> /\ db.outcome["except"] = "ok"

\* C30: the parsing status is one-way: the row is created as 'processing',
\* the background task moves it to 'completed' or 'failed' and nothing
\* moves it back; a 'completed' row has its parsed_content; no exception
\* leaves parse_resume_background, also when the row has disappeared, and
\* the task always has a next statement until it returns; get_resume
\* hands out parsed data only for a row that is 'completed'.
C30_StatusLifecycle ==
    /\ [][LifecycleStep]_<<pc, db, response>>
    /\ [](/\ db.row # <<>> /\ db.row[1].parsing_status = "completed" =>
                db.row[1].parsed_content # <<>>
          /\ TaskSettled =>
                db.row[1].parsing_status \in {"completed", "failed"}
          /\ pc \notin {"upload_resume", "rejected", "finished"} =>
                ENABLED NextBackground)

\* the task ended in its handler, the row says so, and get_resume answered
\* with the status and without data
C30_Witness ==
    /\ pc = "finished"
    /\ db.row # <<>>
    /\ db.row[1].parsing_status = "failed"
    /\ db.row[1].parsing_errors = <<TypeError>>
    /\ response = <<[status_code |-> 200, status |-> "failed"]>>

\* ---------------------------------------------------------------------
\* Stored file names (utils/file_utils.py)
\* ---------------------------------------------------------------------

Uploads == {1, 2}

MaxSeconds == 1

UserIds == {1, 2}

OriginalFilenames == {"cv.pdf", "CV.PDF", "cv.txt"}

\* Path(original_filename).suffix.lower()
FileExt(original_filename) ==
    CASE original_filename = "cv.pdf" -> ".pdf"
      [] original_filename = "CV.PDF" -> ".pdf"
      [] original_filename = "cv.txt" -> ".txt"

\* hashlib.md5(...).hexdigest()[:8]: a function of the string it is given,
\* here without collisions between different strings
md5_8(string) == string

\* the name is made of the user, the second of the call and the original
\* name, and of nothing else
generate_unique_filename(original_filename, user_id, second) ==
    [user |-> user_id,
     timestamp |-> second,
     unique_id |-> md5_8(<<user_id, second, original_filename>>),
     file_ext |-> FileExt(original_filename)]

\* upload_dir / user_<id> / filename
get_file_path(filename, user_id) == <<user_id, filename>>

\* open(file_path, "wb") and write: the file at the path holds the content
\* written last
save_uploaded_file(directory, file_content, filename, user_id) ==
    LET file_path == get_file_path(filename, user_id)
    IN  {file \in directory : file.path # file_path}
            \cup {[path |-> file_path, content |-> file_content]}

\* two upload requests; now is the clock in seconds, returned[i] the name
\* upload i was given (<<>> before), upload_dir the files on disk
InitFilenames ==
    /\ pc = [i \in Uploads |-> "generate_unique_filename"]
    /\ args \in [Uploads -> [filename : OriginalFilenames, user_id : UserIds]]
    /\ returned = [i \in Uploads |-> <<>>]
    /\ upload_dir = {}
    /\ now = 0
    /\ text = None
    /\ cleaned_text = None
    /\ recleaned_text = None
    /\ sections = None
    /\ raw_skills = None
    /\ skills = None
    /\ experience = None
    /\ education = None
    /\ parsed_data = None
    /\ quality_assessment = None
    /\ raised = None
    /\ self = ResumeParser__init__
    /\ calls = None
    /\ db = None
    /\ response = None

GenerateName(i) ==
    /\ pc[i] = "generate_unique_filename"
    /\ returned' = [returned EXCEPT ![i] =
           <<generate_unique_filename(args[i].filename, args[i].user_id,
                                      now)>>]
    /\ pc' = [pc EXCEPT ![i] = "save_uploaded_file"]
    /\ UNCHANGED <<text, cleaned_text, recleaned_text, sections, raw_skills,
                   skills, experience, education, parsed_data,
                   quality_assessment, raised, now, args, calls, self, db,
                   response, upload_dir>>

\* the content of upload i is its own
SaveFile(i) ==
    /\ pc[i] = "save_uploaded_file"
    /\ upload_dir' = save_uploaded_file(upload_dir, i, returned[i][1],
                                        args[i].user_id)
    /\ pc' = [pc EXCEPT ![i] = "saved"]
    /\ UNCHANGED <<text, cleaned_text, recleaned_text, sections, raw_skills,
                   skills, experience, education, parsed_data,
                   quality_assessment, raised, now, returned, args, calls,
                   self, db, response>>

\* a second passes
Tick ==
    /\ now < MaxSeconds
    /\ now' = now + 1
    /\ UNCHANGED <<pc, text, cleaned_text, recleaned_text, sections,
                   raw_skills, skills, experience, education, parsed_data,
                   quality_assessment, raised, returned, args, calls, self,
                   db, response, upload_dir>>

NextFilenames ==
    \/ \E i \in Uploads : GenerateName(i)
    \/ \E i \in Uploads : SaveFile(i)
    \/ Tick

SpecFilenames == InitFilenames /\ [][NextFilenames]_vars

\* C29: two uploads never get the same stored name, also when they come
\* from the same user with the same original filename in the same second,
\* and the file an upload saved is still its own after the other upload
\* saved.
C29_UniqueStoredNames ==
    \A i \in Uploads : \A j \in Uploads \ {i} :
        /\ returned[i] # <<>> /\ returned[j] # <<>> =>
               returned[i] # returned[j]
        /\ pc[i] = "saved" =>
               [path |-> get_file_path(returned[i][1], args[i].user_id),
                content |-> i] \in upload_dir

\* ---------------------------------------------------------------------
\* identify_sections, line by line
\* ---------------------------------------------------------------------

\* the header lines among the lines: some pattern finds a word of the line
HeaderPositions(lines) ==
    {i \in DOMAIN lines :
        \E k \in DOMAIN SectionOrder :
            Search(section_patterns(SectionOrder[k]), lines[i])}

\* the label a header line is to get: the first, in the order the
\* patterns are listed, whose pattern matches
FirstMatchingLabel(line) ==
    LET order == <<"contact", "summary", "experience", "education",
                   "skills", "projects", "certifications", "languages",
                   "interests">>
    IN  order[CHOOSE k \in DOMAIN order :
                  /\ Search(section_patterns(order[k]), line)
                  /\ \A j \in 1..(k - 1) :
                         ~Search(section_patterns(order[j]), line)]

\* position 0 is the start of the text, where the label is "header"
LabelAt(lines, i) == IF i = 0 THEN "header" ELSE FirstMatchingLabel(lines[i])

\* the lines after position i up to the next header line
RunAfter(lines, i) ==
    LET later == {h \in HeaderPositions(lines) : h > i}
        stop == IF later = {} THEN Len(lines) + 1
                ELSE CHOOSE h \in later : \A g \in later : h <= g
    IN  SubSeq(lines, i + 1, stop - 1)

\* C24: a header line gets the first label, in the fixed order, whose
\* pattern matches it; at a header line the buffer is stored under the
\* label that was current, so that a label holds the lines between its
\* (last) header line with lines after it and the next header line, and
\* never a header line; the map is a function of the text.
C24_FirstMatchWins ==
    pc = "done" =>
        LET lines == NonBlankLines(text)
            flushed == {i \in {0} \cup HeaderPositions(lines) :
                            RunAfter(lines, i) # <<>>}
        IN  /\ {sections[k].name : k \in DOMAIN sections} =
                   {LabelAt(lines, i) : i \in flushed}
            /\ \A k \in DOMAIN sections :
                   LET mine == {i \in flushed :
                                    LabelAt(lines, i) = sections[k].name}
                       last == CHOOSE i \in mine : \A j \in mine : i >= j
                       content == SplitLines(sections[k].content)
                   IN  /\ sections[k].content =
                              Strip(JoinLines(RunAfter(lines, last)))
                       /\ \A n \in DOMAIN content :
                              n \notin HeaderPositions(content)
            /\ sections = identify_sections(text)

\* a line that names skills and experience opened the experience section
C24_Witness ==
    /\ pc = "done"
    /\ text = JoinLines(<< <<"a">>, <<"Skills", " ", "Experience">>,
                          <<" ", "b">> >>)
    /\ sections = << [name |-> "header", content |-> <<"a">>],
                     [name |-> "experience", content |-> <<"b">>] >>

\* ---------------------------------------------------------------------
\* ExperienceParser._extract_description_and_achievements
\* ---------------------------------------------------------------------

\* words of the shape [A-Z][a-z]+ and of the shape [A-Z][A-Z]+
TitleCaseWords == {"Software", "Engineer", "Developer", "Acme"}

UpperCaseWords == {"ACME", "CORP"}

\* the two header patterns on a stripped line: upper-case words and
\* whitespace only, or Title Case words with whitespace between them
_is_section_header(line) ==
    \/ /\ line # <<>>
       /\ line[1] \in UpperCaseWords
       /\ \A i \in DOMAIN line : line[i] \in UpperCaseWords \/ IsSpace(line[i])
    \/ /\ line # <<>>
       /\ line[1] \in TitleCaseWords
       /\ line[Len(line)] \in TitleCaseWords
       /\ \A i \in DOMAIN line : line[i] \in TitleCaseWords \/ IsSpace(line[i])

\* the one-character glyphs of the first startswith (of which the tokens
\* have the dash and the star), and the letter o of the second, which
\* counts with the space after it
OneCharGlyphs == {"-", "*"}

TwoCharGlyphs == {"o"}

StartsWithGlyph(line) ==
    \/ line[1] \in OneCharGlyphs
    \/ Len(line) >= 2 /\ line[1] \in TwoCharGlyphs /\ line[2] = " "

\* line[1:].strip() and line[2:].strip()
AfterGlyph(line) ==
    IF line[1] \in OneCharGlyphs THEN Strip(Tail(line))
    ELSE Strip(SubSeq(line, 3, Len(line)))

\* ' '.join(lines)
RECURSIVE JoinSpaces(_)
JoinSpaces(ls) ==
    IF ls = <<>> THEN <<>>
    ELSE IF Len(ls) = 1 THEN ls[1]
    ELSE ls[1] \o <<" ">> \o JoinSpaces(Tail(ls))

\* the loop over the lines of the block
RECURSIVE DescriptionLoop(_, _, _)
DescriptionLoop(lines, description_lines, achievements) ==
    IF lines = <<>>
    THEN [description |-> IF description_lines # <<>>
                          THEN <<JoinSpaces(description_lines)>> ELSE <<>>,
          achievements |-> achievements]
    ELSE LET line == Strip(Head(lines))
         IN  IF line = <<>> \/ _is_section_header(line)
             THEN DescriptionLoop(Tail(lines), description_lines,
                                  achievements)
             ELSE IF StartsWithGlyph(line)
             THEN DescriptionLoop(Tail(lines), description_lines,
                                  Append(achievements, AfterGlyph(line)))
             ELSE DescriptionLoop(Tail(lines),
                                  Append(description_lines, line),
                                  achievements)

\* the description is <<>> for None and <<text>> otherwise
_extract_description_and_achievements(t) ==
    DescriptionLoop(SplitLines(t), <<>>, <<>>)

MaxDescriptionLines == 3

DescriptionLineShapes ==
    { <<>>, <<" ">>, <<"built", " ", "apis">>, <<"-", " ", "built">>,
      <<" ", "*", "built">>, <<"o", " ", "apis">>,
      <<"Software", " ", "Engineer">>, <<"ACME", " ", "CORP">>,
      <<"Developer", " ", "at", " ", "Acme">> }

InitDescription ==
    /\ pc = "extract_description"
    /\ args \in {JoinLines(ls) :
                    ls \in SeqsUpTo(DescriptionLineShapes,
                                    MaxDescriptionLines)}
    /\ returned = None
    /\ now = <<2026, 11, 5>>
    /\ text = None
    /\ cleaned_text = None
    /\ recleaned_text = None
    /\ sections = None
    /\ raw_skills = None
    /\ skills = None
    /\ experience = None
    /\ education = None
    /\ parsed_data = None
    /\ quality_assessment = None
    /\ raised = None
    /\ self = ResumeParser__init__
    /\ calls = None
    /\ db = None
    /\ response = None
    /\ upload_dir = None

ExtractDescription ==
    /\ pc = "extract_description"
    /\ returned' = _extract_description_and_achievements(args)
    /\ pc' = "done"
    /\ UNCHANGED <<text, cleaned_text, recleaned_text, sections, raw_skills,
                   skills, experience, education, parsed_data,
                   quality_assessment, raised, now, args, calls, self, db,
                   response, upload_dir>>

NextDescription == ExtractDescription

SpecDescription == InitDescription /\ [][NextDescription]_vars

\* C25: every non-blank line of an experience block is an achievement if
\* it starts with a bullet glyph and a part of the description otherwise,
\* in input order, and none is dropped: the achievements are the glyph
\* lines without their glyph, the description is the other lines joined.
C25_EveryLineKept ==
    pc = "done" =>
        LET lines == NonBlankLines(args)
            bullets == SelectSeq(lines, StartsWithGlyph)
            others == SelectSeq(lines, LAMBDA l : ~StartsWithGlyph(l))
        IN  /\ returned.achievements =
                   [i \in DOMAIN bullets |-> AfterGlyph(bullets[i])]
            /\ returned.description =
                   IF others = <<>> THEN <<>> ELSE <<JoinSpaces(others)>>

\* ---------------------------------------------------------------------
\* Blocks with nothing identifying
\* ---------------------------------------------------------------------

\* the blocks of a list for which a test holds
Identifying(blocks, Names(_)) ==
    {i \in DOMAIN blocks : Strip(blocks[i]) # <<>> /\ Names(blocks[i])}

NamesEmployer(block) ==
    _extract_company_name(block) # NoneText
        \/ _extract_job_title(block) # NoneText

NamesSchool(block) ==
    _extract_institution_name(block) # NoneText
        \/ _extract_degree_info(block).degree # None

MaxDiscardLines == 6

DiscardLineShapes ==
    { <<"Experience">>, <<"Developer", " ", "2019">>, <<"Education">>,
      <<"Bachelor">> }

\* extract_experience and extract_education are applied to the same text,
\* one after the other
InitDiscard ==
    /\ pc = "extract_experience"
    /\ text \in {JoinLines(ls) :
                    ls \in SeqsUpTo(DiscardLineShapes, MaxDiscardLines)}
    /\ now = <<2026, 11, 5>>
    /\ cleaned_text = None
    /\ recleaned_text = None
    /\ sections = None
    /\ raw_skills = None
    /\ skills = None
    /\ experience = None
    /\ education = None
    /\ parsed_data = None
    /\ quality_assessment = None
    /\ raised = None
    /\ returned = None
    /\ args = None
    /\ self = ResumeParser__init__
    /\ calls = None
    /\ db = None
    /\ response = None
    /\ upload_dir = None

ApplyExtractExperience ==
    /\ pc = "extract_experience"
    /\ LET result == extract_experience(text, now)
       IN  /\ raised' = result.raised
           /\ experience' = IF result.raised = None THEN result.value
                            ELSE <<>>
    /\ pc' = "extract_education"
    /\ UNCHANGED <<text, cleaned_text, recleaned_text, sections, raw_skills,
                   skills, education, parsed_data, quality_assessment, now,
                   returned, args, calls, self, db, response, upload_dir>>

ApplyExtractEducation ==
    /\ pc = "extract_education"
    /\ education' = extract_education(text)
    /\ pc' = "done"
    /\ UNCHANGED <<text, cleaned_text, recleaned_text, sections, raw_skills,
                   skills, experience, parsed_data, quality_assessment,
                   raised, now, returned, args, calls, self, db, response,
                   upload_dir>>

NextDiscard == ApplyExtractExperience \/ ApplyExtractEducation

SpecDiscard == InitDiscard /\ [][NextDiscard]_vars

\* C26: every entry of extract_experience has a company_name or a
\* job_title and every entry of extract_education has an institution_name
\* or a degree; a block that has neither gives no entry, and the blocks
\* after it give theirs: there are as many entries as blocks that name
\* something.
C26_DiscardedBlocks ==
    /\ pc \in {"extract_education", "done"} /\ raised = None =>
           /\ \A i \in DOMAIN experience :
                  \/ experience[i].company_name # NoneText
                  \/ experience[i].job_title # NoneText
           /\ Len(experience) =
                  Cardinality(Identifying(
                      _identify_experience_sections(text), NamesEmployer))
    /\ pc = "done" =>
           /\ \A i \in DOMAIN education :
                  \/ education[i].institution_name # NoneText
                  \/ education[i].degree # None
           /\ Len(education) =
                  Cardinality(Identifying(
                      _identify_education_sections(text), NamesSchool))

\* the first experience block and the first education block had nothing
\* identifying and were discarded, and the blocks after them gave their
\* entries
C26_Witness ==
    /\ pc = "done"
    /\ raised = None
    /\ Identifying(_identify_experience_sections(text), NamesEmployer) = {2}
    /\ Identifying(_identify_education_sections(text), NamesSchool) = {2}
    /\ Len(experience) = 1
    /\ Len(education) = 1

\* ---------------------------------------------------------------------
\* QualityAssessor._generate_suggestions
\* ---------------------------------------------------------------------

\* C27: the suggestions are the general messages for completeness,
\* structure, content, ATS and professionalism, in that order, each
\* present exactly when the score of that component in the assessment is
\* below 0.7, followed by the messages for missing skills, missing
\* experience and missing education, each present exactly when that part
\* of the profile is empty.
C27_SuggestionsOrdered ==
    pc = "done" =>
        LET due == <<returned.completeness < Tenths(7),
                     returned.structure < Tenths(7),
                     returned.content_quality < Tenths(7),
                     returned.ats_compatibility < Tenths(7),
                     returned.professionalism < Tenths(7),
                     \A c \in DOMAIN parsed_data.skills :
                         parsed_data.skills[c] = <<>>,
                     parsed_data.experience = <<>>,
                     parsed_data.education = <<>> >>
            expected == SelectSeq(<<1, 2, 3, 4, 5, 6, 7, 8>>,
                                  LAMBDA k : due[k])
        IN  quality_assessment.suggestions =
                [i \in DOMAIN expected |-> suggestion_messages[expected[i]]]

\* ---------------------------------------------------------------------
\* QualityAssessor._has_logical_flow on the maps of identify_sections
\* ---------------------------------------------------------------------
MaxFlowLines == 6

FlowLineShapes == { <<"a">>, <<"b">>, <<"Experience">>, <<"Education">> }

InitFlow ==
    /\ pc = "identify_sections"
    /\ text \in {JoinLines(ls) : ls \in SeqsUpTo(FlowLineShapes, MaxFlowLines)}
    /\ cleaned_text = None
    /\ recleaned_text = None
    /\ sections = None
    /\ raw_skills = None
    /\ skills = None
    /\ experience = None
    /\ education = None
    /\ parsed_data = None
    /\ quality_assessment = None
    /\ raised = None
    /\ returned = None
    /\ now = None
    /\ args = None
    /\ calls = None
    /\ self = ResumeParser__init__
    /\ db = None
    /\ response = None
    /\ upload_dir = None

FlowIdentifySections ==
    /\ pc = "identify_sections"
    /\ sections' = identify_sections(text)
    /\ pc' = "has_logical_flow"
    /\ UNCHANGED <<text, cleaned_text, recleaned_text, raw_skills, skills,
                   experience, education, parsed_data, quality_assessment,
                   raised, now, returned, args, calls, self, db, response,
                   upload_dir>>

HasLogicalFlow ==
    /\ pc = "has_logical_flow"
    /\ returned' = _has_logical_flow(sections)
    /\ pc' = "done"
    /\ UNCHANGED <<text, cleaned_text, recleaned_text, sections, raw_skills,
                   skills, experience, education, parsed_data,
                   quality_assessment, raised, now, args, calls, self, db,
                   response, upload_dir>>

NextFlow ==
    \/ FlowIdentifySections
    \/ HasLogicalFlow

SpecFlow == InitFlow /\ [][NextFlow]_vars

\* the places of a section in the document: the header lines of its label
\* that have lines after them
SectionPlaces(lines, label) ==
    {i \in HeaderPositions(lines) :
        /\ FirstMatchingLabel(lines[i]) = label
        /\ RunAfter(lines, i) # <<>>}

====
